---- MODULE Spec2Model ----
(***************************************************************************)
(* Game replay and variation navigator of the Recents page, together with  *)
(* the useStockfish hook that drives the engine worker and the debounced   *)
(* effect that requests evaluations.                                       *)
(*                                                                         *)
(* The auth store (authStore.js) and the live games of the Live and Home   *)
(* pages with the game streams of streamGame (lichess.js) follow; Lichess  *)
(* and the browser's fetch are external.  The OAuth redirect and callback  *)
(* (lichess.js, AuthCallback.jsx), the games store (main.jsx) and the move *)
(* extraction from a Chess.com PGN (chesscom.js) come with them.           *)
(* streamGame is also modelled chunk by chunk (its buffer and line         *)
(* framing), the Chess.com account of the auth store with its two          *)
(* requests, the polling of the playing games with the sort of the merged  *)
(* list, the evaluation bar (EvalBar) and parseUciOutput on the words of   *)
(* an engine line.                                                         *)
(*                                                                         *)
(* chess.js and the Stockfish worker are external.  The rules are those of *)
(* chess restricted to the moves of UciMoves (king's knight and queen's    *)
(* knight hopping out and back, and the two e-pawn double steps); a        *)
(* position is the part of a FEN those moves can change.  chess.js 1.x     *)
(* throws on an illegal or unparseable move.                               *)
(***************************************************************************)
EXTENDS Integers, Sequences, FiniteSets, TLC

\* ------------------------------------------------------------------ bounds
MaxOverlay == 2
MaxQueue == 1
MaxLines == 2
MaxMoves == 3
BurstCap == 3
MaxStreams == 2
MaxRequests == 2
MaxBuffer == 1
MaxPlies == 3
MaxHeaders == 2
MaxStreamLines == 3

\* Math.max, Math.min
Max(a, b) == IF a >= b THEN a ELSE b
Min(a, b) == IF a <= b THEN a ELSE b

\* ------------------------------------------------------------ chess rules
UciMoves == {"g1f3", "f3g1", "e2e4", "b8c6", "c6b8", "e7e5"}

StartFen == [wn |-> "g1", wp |-> "e2", bn |-> "b8", bp |-> "e7", turn |-> "w", n |-> 1]

\* currentFenRef.current = null
NullFen == [wn |-> "-", wp |-> "-", bn |-> "-", bp |-> "-", turn |-> "-", n |-> 0]

\* chess.move({from, to}): whether the move is legal in fen
Legal(fen, m) ==
    \/ m = "g1f3" /\ fen.turn = "w" /\ fen.wn = "g1"
    \/ m = "f3g1" /\ fen.turn = "w" /\ fen.wn = "f3"
    \/ m = "e2e4" /\ fen.turn = "w" /\ fen.wp = "e2"
    \/ m = "b8c6" /\ fen.turn = "b" /\ fen.bn = "b8"
    \/ m = "c6b8" /\ fen.turn = "b" /\ fen.bn = "c6"
    \/ m = "e7e5" /\ fen.turn = "b" /\ fen.bp = "e7"

\* chess.move(...) then chess.fen(), for a legal move
ApplyMove(fen, m) ==
    LET moved == CASE m = "g1f3" -> [fen EXCEPT !.wn = "f3"]
                   [] m = "f3g1" -> [fen EXCEPT !.wn = "g1"]
                   [] m = "e2e4" -> [fen EXCEPT !.wp = "e4"]
                   [] m = "b8c6" -> [fen EXCEPT !.bn = "c6"]
                   [] m = "c6b8" -> [fen EXCEPT !.bn = "b8"]
                   [] m = "e7e5" -> [fen EXCEPT !.bp = "e5"]
                   [] OTHER -> fen
    IN  IF fen.turn = "w"
        THEN [moved EXCEPT !.turn = "b"]
        ELSE [moved EXCEPT !.turn = "w", !.n = fen.n + 1]

LegalMoves(fen) == {m \in UciMoves : Legal(fen, m)}

\* the engine's choice in a position: one of its legal moves, the same one
\* every time the position is searched
WorkerBest(fen) == CHOOSE m \in LegalMoves(fen) : TRUE

\* the algebraic notation of each move of UciMoves
SanTokens == {"Nf3", "Ng1", "e4", "Nc6", "Nb8", "e5"}

SanToUci(t) ==
    CASE t = "Nf3" -> "g1f3"
      [] t = "Ng1" -> "f3g1"
      [] t = "e4" -> "e2e4"
      [] t = "Nc6" -> "b8c6"
      [] t = "Nb8" -> "c6b8"
      [] t = "e5" -> "e7e5"
      [] OTHER -> "null"

\* tokens of a move list: coordinate, algebraic, coordinate-shaped but never
\* legal ("h1h8"), unparseable ("zz")
Tokens == UciMoves \cup SanTokens \cup {"h1h8", "zz"}

\* /^[a-h][1-8][a-h][1-8][qrbn]?$/.test(moveStr)
isUci(moveStr) == moveStr \in UciMoves \cup {"h1h8"}

\* The move chess.move makes for a token, "null" when it throws.
moveResult(fen, moveStr) ==
    IF isUci(moveStr)
    THEN IF Legal(fen, moveStr) THEN moveStr ELSE "null"
    ELSE IF moveStr \in SanTokens /\ Legal(fen, SanToUci(moveStr))
         THEN SanToUci(moveStr)
         ELSE "null"

\* ------------------------------------------------------- timeline builder
\* a game as the platform clients hand it over: moves (split on blanks),
\* clocks (centiseconds, empty when absent), analysis (one entry per analysed
\* ply, empty when absent)
NoGame == [id |-> 0, moves |-> <<>>, clocks |-> <<>>, analysis |-> <<>>]

\* selectedGame.analysis?.[i]?.judgment?.name || null   (i counts from 0)
JudgmentAt(game, i) ==
    IF i + 1 <= Len(game.analysis) THEN game.analysis[i + 1].judgment ELSE "null"

\* clocks[i] ? clocks[i] : null   (0 stands for null)
ClockAt(game, i) ==
    IF i + 1 <= Len(game.clocks) THEN game.clocks[i + 1] ELSE 0

\* a builder that pushes the position the board had before the move
RECURSIVE BuildFrom_StaleFen(_, _, _, _)
BuildFrom_StaleFen(game, i, fen, positions) ==
    IF i >= Len(game.moves)
    THEN positions
    ELSE LET mv == moveResult(fen, game.moves[i + 1])
         IN  IF mv # "null"
             THEN BuildFrom_StaleFen(game, i + 1, ApplyMove(fen, mv),
                                     Append(positions,
                                            [fen |-> fen, move |-> mv,
                                             clock |-> ClockAt(game, i),
                                             judgment |-> JudgmentAt(game, i)]))
             ELSE BuildFrom_StaleFen(game, i + 1, fen, positions)

\* the forEach body for token i: push an entry when the move applies, leave
\* the list alone when chess.move throws; the loop goes on either way
RECURSIVE BuildFrom(_, _, _, _)
BuildFrom(game, i, fen, positions) ==
    IF i >= Len(game.moves)
    THEN positions
    ELSE LET mv == moveResult(fen, game.moves[i + 1])
         IN  IF mv # "null"
             THEN BuildFrom(game, i + 1, ApplyMove(fen, mv),
                            Append(positions,
                                   [fen |-> ApplyMove(fen, mv), move |-> mv,
                                    clock |-> ClockAt(game, i),
                                    judgment |-> JudgmentAt(game, i)]))
             ELSE BuildFrom(game, i + 1, fen, positions)

\* gameData.positions; entry 0 is the start position
gameData(game) ==
    BuildFrom(game, 0, StartFen,
              <<[fen |-> StartFen, move |-> "null", clock |-> 0, judgment |-> "null"]>>)

\* ------------------------------------------------------------------ games
\* The games the list offers.  Lichess attaches analysis[i].best to the entry
\* of ply i: the move it prefers to the one played at ply i, so a move of the
\* side that played ply i.
Game1 ==
    [id |-> 1, moves |-> <<"Nf3", "Nc6">>, clocks |-> <<>>, analysis |-> <<>>]

Game2 ==
    [id |-> 2, moves |-> <<"e2e4", "b8c6">>, clocks |-> <<300, 290>>,
     analysis |-> << [eval |-> 30, mate |-> 0, best |-> "null", judgment |-> "null"],
                     [eval |-> 80, mate |-> 0, best |-> "e7e5", judgment |-> "Inaccuracy"] >>]

Game3 ==
    [id |-> 3, moves |-> <<"zz", "Nf3">>, clocks |-> <<>>, analysis |-> <<>>]

Game4 ==
    [id |-> 4, moves |-> <<>>, clocks |-> <<>>, analysis |-> <<>>]

Games == {Game1, Game2, Game3, Game4}

\* a Lichess game with clocks and analysis whose second token chess.js rejects
\* (a variant move such as a drop); a game the annotated page is opened on
Game5 ==
    [id |-> 5, moves |-> <<"e2e4", "zz", "b8c6">>, clocks |-> <<300, 290, 280>>,
     analysis |-> << [eval |-> 30, mate |-> 0, best |-> "null", judgment |-> "null"],
                     [eval |-> 80, mate |-> 0, best |-> "null", judgment |-> "Inaccuracy"],
                     [eval |-> 50, mate |-> 0, best |-> "null", judgment |-> "null"] >>]

\* a Lichess game whose analysis has a large advantage and forced mates: after
\* the second ply White mates in two, after the third Black does
Game6 ==
    [id |-> 6, moves |-> <<"e4", "Nc6", "Nf3">>, clocks |-> <<>>,
     analysis |-> << [eval |-> 1000, mate |-> 0, best |-> "null", judgment |-> "null"],
                     [eval |-> 0, mate |-> 2, best |-> "null", judgment |-> "null"],
                     [eval |-> 0, mate |-> 0 - 2, best |-> "null", judgment |-> "null"] >>]

\* ------------------------------------------------------------------ state
VARIABLES
    games,               \* Recents: the fetched game list
    lineCap,             \* how many worker lines may wait unhandled in this behaviour
    selectedGame,        \* Recents: selectedGame (NoGame = null)
    currentMoveIndex,    \* Recents: the cursor
    variationMoves,      \* Recents: the overlay, UCI moves
    inVariation,         \* Recents: Exploring flag
    timers,              \* pending setTimeout callbacks of the evaluation effect
    effectCleanup,       \* timer id held by the effect's registered cleanup, 0 = none
    isReady,             \* useStockfish state
    isAnalyzing,
    evaluation,
    bestMove,
    depth,
    principalVariation,
    currentFenRef,
    handshake,           \* worker: how far the uci / isready exchange got
    searches,            \* worker: position+go requests posted and not yet answered
    fromWorker,          \* worker: output lines posted and not yet handled
    tokens,              \* timeline builder run on its own: the move list
    built,               \* timeline builder run on its own: the result
    tracing,             \* history: whether burst is recorded in this behaviour
    burst,               \* history: changes of the current position in a row, each
                         \* while the debounce timer of the one before was pending
    issued,              \* history: evaluation requests since the last such change
    bestMoveFor,         \* history: the position whose search printed bestMove
    storedToken,         \* localStorage 'lichess_token'
    token,               \* auth store
    isAuthenticated,
    user,
    isLoading,
    error,
    playingGames,
    profileRequests,     \* getLichessProfile calls awaiting their response
    answered,            \* history: who asked for the profile answered last, and how it ended
    page,                \* which page shows the live games: "Live" or "Home"
    selectedLiveGame,    \* Live: selectedGame, Home: selectedLiveGame
    liveGameState,       \* Live: gameState, Home: liveGameState
    liveChess,           \* Live: chess, Home: liveChess (as its position)
    streamCleanupRef,    \* index in streams of the stream whose abort the ref holds, 0 = null
    streamEffectCleanup, \* whether the stream effect's last run returned a cleanup
    streams,             \* every streamGame call so far: game, status, lines in flight
    oauthSession,        \* sessionStorage 'lichess_state' and 'lichess_code_verifier'
    tokenRequests,       \* POSTs to /api/token awaiting their response
    route,               \* where the router stands
    gamesStore,          \* games store: per platform games, loading, fetched, error
    gameRequests,        \* getUserGames / getChesscomRecentGames calls awaiting their response
    pgnGame,             \* a Chess.com game: header lines, moves with or without clock, result
    extracted,           \* extractMovesFromPgn of its PGN text
    reading,             \* one streamGame call at the level of chunks: the response body
                         \* not yet read, buffer, the calls of onMove and onEnd so far
    chesscom,            \* auth store: chesscomUsername, chesscomUser, localStorage
                         \* 'chesscom_username', the profile+stats requests in flight
    uciLine              \* the text of the engine line handled last

navVars == <<selectedGame, currentMoveIndex, variationMoves, inVariation>>
listVars == <<games, lineCap>>
historyVars == <<tracing, burst, issued, bestMoveFor>>
effectVars == <<timers, effectCleanup>>
hookVars == <<isReady, isAnalyzing, evaluation, bestMove, depth, principalVariation,
              currentFenRef>>
workerVars == <<handshake, searches, fromWorker>>
buildVars == <<tokens, built>>
authVars == <<storedToken, token, isAuthenticated, user, isLoading, error, playingGames,
              profileRequests, answered>>
liveVars == <<page, selectedLiveGame, liveGameState, liveChess, streamCleanupRef,
              streamEffectCleanup, streams>>
oauthVars == <<oauthSession, tokenRequests, route>>
cacheVars == <<gamesStore, gameRequests>>
pgnVars == <<pgnGame, extracted>>
sideVars == <<pgnVars, reading, chesscom, uciLine>>
replayVars == <<sideVars, listVars, navVars, effectVars, hookVars, workerVars, buildVars, historyVars>>
vars == <<replayVars, authVars, liveVars, oauthVars, cacheVars>>

\* ------------------------------------------------------- derived (useMemo)
\* the string 'start' basePosition falls back to
StartWord == [wn |-> "start", wp |-> "-", bn |-> "-", bp |-> "-", turn |-> "-", n |-> 0]

\* the useMemo of gameData: one timeline per game
Timelines == [game \in Games \cup {Game5, Game6, NoGame} |-> gameData(game)]

positionsOf(game) == Timelines[game]

\* basePosition for a selected game and cursor
basePositionOf(game, idx) ==
    IF game = NoGame
    THEN StartWord
    ELSE IF idx + 2 \in 1..Len(positionsOf(game))
         THEN positionsOf(game)[idx + 2].fen
         ELSE StartWord

\* the for loop of currentPosition: "throw" when a chess.move throws
RECURSIVE ReplayVariation(_, _)
ReplayVariation(fen, moves) ==
    IF moves = <<>>
    THEN [ok |-> TRUE, fen |-> fen]
    ELSE IF Legal(fen, Head(moves))
         THEN ReplayVariation(ApplyMove(fen, Head(moves)), Tail(moves))
         ELSE [ok |-> FALSE, fen |-> fen]

currentPositionOf(game, idx, moves, inVar) ==
    IF ~inVar \/ Len(moves) = 0
    THEN basePositionOf(game, idx)
    ELSE IF ReplayVariation(basePositionOf(game, idx), moves).ok
         THEN ReplayVariation(basePositionOf(game, idx), moves).fen
         ELSE basePositionOf(game, idx)

basePosition == basePositionOf(selectedGame, currentMoveIndex)

currentPosition ==
    currentPositionOf(selectedGame, currentMoveIndex, variationMoves, inVariation)

\* lichessAnalysis && currentMoveIndex >= 0 && lichessAnalysis[currentMoveIndex]
hasLichessEvalOf(game, idx) == idx >= 0 /\ idx + 1 <= Len(game.analysis)

hasLichessEval == hasLichessEvalOf(selectedGame, currentMoveIndex)

currentBestMove ==
    IF inVariation
    THEN bestMove
    ELSE IF hasLichessEval /\ selectedGame.analysis[currentMoveIndex + 1].best # "null"
         THEN selectedGame.analysis[currentMoveIndex + 1].best
         ELSE bestMove

\* the forEach index i of every token that was pushed: entry k is the ply of
\* positions[k] (positions counted from 0)
RECURSIVE PushedFrom(_, _, _, _)
PushedFrom(game, i, fen, plies) ==
    IF i >= Len(game.moves)
    THEN plies
    ELSE LET mv == moveResult(fen, game.moves[i + 1])
         IN  IF mv # "null"
             THEN PushedFrom(game, i + 1, ApplyMove(fen, mv), Append(plies, i))
             ELSE PushedFrom(game, i + 1, fen, plies)

pliesOf(game) == PushedFrom(game, 0, StartFen, <<>>)

\* lichessAnalysis[i]; an entry of nothing when there is none
NoEntry == [eval |-> 0, mate |-> 0, best |-> "null", judgment |-> "null"]

AnalysisAt(game, i) ==
    IF i >= 0 /\ i + 1 <= Len(game.analysis) THEN game.analysis[i + 1] ELSE NoEntry

\* getCurrentClock (179-190): the clock at the nearest index at or below the
\* cursor with the colour's parity; 0 stands for null and undefined
getCurrentClock(color) ==
    IF selectedGame = NoGame \/ currentMoveIndex < 0
    THEN 0
    ELSE LET colorOffset == IF color = "white" THEN 0 ELSE 1
             i == IF currentMoveIndex % 2 = colorOffset
                  THEN currentMoveIndex
                  ELSE currentMoveIndex - 1
         IN  IF i >= 0 THEN ClockAt(selectedGame, i) ELSE 0

\* (gameData?.positions.length || 1) - 2
lastIndex == IF selectedGame = NoGame THEN 0 - 1 ELSE Len(positionsOf(selectedGame)) - 2

\* ------------------------------------------- the evaluation effect (336-356)
\* debounce delay in ms, and the search depth of replay analysis
DebounceMs == 250
ReplayDepth == 16

\* setTimeout's handle: the least id no pending timer holds
NewTimerId == CHOOSE i \in 1..(Cardinality(timers) + 1) : \A t \in timers : t.id # i

\* a cleanup that forgets clearTimeout
CleanupTimers_NoClear == timers

\* the cleanup of the effect's last run: clearTimeout(timer); stopStockfish()
CleanupTimers == {t \in timers : t.id # effectCleanup}

\* an effect that does not look at the platform's analysis
ShouldArm_IgnoresAnalysis(game, idx, ready) == game # NoGame /\ idx >= 0 - 1 /\ ready

\* an effect that does not wait for the engine
ShouldArm_IgnoresReady(game, idx, ready) ==
    game # NoGame /\ idx >= 0 - 1 /\ ~hasLichessEvalOf(game, idx)

\* whether the effect's body arms the timer: a game is selected (338) and
\* !hasLichessEval && isReady (343)
ShouldArm(game, idx, ready) ==
    game # NoGame /\ idx >= 0 - 1 /\ ~hasLichessEvalOf(game, idx) /\ ready

\* The effect after a render with the given navigator state and isReady.  React
\* runs it only when a dependency changed: it first runs the cleanup the last
\* run returned, then the body.  stopStockfish posts 'stop' and clears
\* isAnalyzing; the worker answers 'stop' by ending the running search with
\* its bestmove line, which WorkerBestMove may do at any time.
RunEffect(game, idx, moves, inVar, ready, analyzing) ==
    LET changed == \/ currentPositionOf(game, idx, moves, inVar) # currentPosition
                   \/ game # selectedGame
                   \/ idx # currentMoveIndex
                   \/ ready # isReady
        arm == ShouldArm(game, idx, ready)
        stops == effectCleanup # 0 \/ (game # NoGame /\ idx >= 0 - 1 /\ ~arm)
    IN  IF ~changed
        THEN /\ UNCHANGED effectVars
             /\ isAnalyzing' = analyzing
        ELSE /\ timers' = IF arm
                          THEN CleanupTimers \cup
                               {[id |-> NewTimerId,
                                 fen |-> currentPositionOf(game, idx, moves, inVar)]}
                          ELSE CleanupTimers
             /\ effectCleanup' = IF arm THEN NewTimerId ELSE 0
             /\ isAnalyzing' = IF stops THEN FALSE ELSE analyzing

\* history of the debounce.  A change is a render that changes what the
\* effect depends on (the current position, the cursor, the game, isReady):
\* one made while the timer is pending lengthens the burst, one made with no
\* timer pending starts a new burst.
Trace ==
    LET changed == \/ currentPosition' # currentPosition
                   \/ selectedGame' # selectedGame
                   \/ currentMoveIndex' # currentMoveIndex
                   \/ isReady' # isReady
    IN  /\ tracing' = tracing
        /\ burst' = IF tracing /\ changed
                    THEN IF timers # {} THEN Min(burst + 1, BurstCap) ELSE 1
                    ELSE burst
        /\ issued' = IF tracing /\ changed THEN 0 ELSE issued

\* a handler's state updates, the render and the effect that follow
Commit(game, idx, moves, inVar) ==
    /\ selectedGame' = game
    /\ currentMoveIndex' = idx
    /\ variationMoves' = moves
    /\ inVariation' = inVar
    /\ RunEffect(game, idx, moves, inVar, isReady, isAnalyzing)
    /\ UNCHANGED <<isReady, evaluation, bestMove, depth, principalVariation, currentFenRef>>
    /\ UNCHANGED <<authVars, liveVars, oauthVars, cacheVars, sideVars, listVars, workerVars, buildVars, bestMoveFor>>
    /\ Trace

\* ------------------------------------------------- navigation (192-196)
\* a step forward that is not clamped, a jump to the end that is one off
goNext_NoClamp == currentMoveIndex + 1
goLast_OffByOne == lastIndex + 1

goFirst == 0 - 1
goPrev == Max(0 - 1, currentMoveIndex - 1)
goNext == Min(lastIndex, currentMoveIndex + 1)
goLast == lastIndex

\* on-screen buttons (622-628) and move list (756-772): cursor only
ClickFirst ==
    /\ selectedGame # NoGame
    /\ Commit(selectedGame, goFirst, variationMoves, inVariation)

ClickPrev ==
    /\ selectedGame # NoGame
    /\ Commit(selectedGame, goPrev, variationMoves, inVariation)

ClickNext ==
    /\ selectedGame # NoGame
    /\ Commit(selectedGame, goNext, variationMoves, inVariation)

ClickLast ==
    /\ selectedGame # NoGame
    /\ Commit(selectedGame, goLast, variationMoves, inVariation)

goToMove(index) ==
    /\ selectedGame # NoGame
    /\ Commit(selectedGame, index, variationMoves, inVariation)

ClickMove == \E index \in 0..lastIndex : goToMove(index)

\* a selection that resets the cursor and keeps the overlay
SelectGame_KeepsOverlay(game) ==
    /\ game \in games
    /\ Commit(game, 0 - 1, variationMoves, inVariation)

\* game list button (569-572)
SelectGame(game) ==
    /\ game \in games
    /\ Commit(game, 0 - 1, <<>>, FALSE)

\* fetchRecentGames (26-57): a platform or account change drops the selection
FetchRecentGames ==
    /\ selectedGame # NoGame
    /\ Commit(NoGame, currentMoveIndex, variationMoves, inVariation)

\* ------------------------------------------------- handleKeyDown (218-266)
\* Shift+ArrowRight
ShiftArrowRight ==
    /\ selectedGame # NoGame
    /\ IF currentBestMove # "null"
       THEN /\ Len(variationMoves) < MaxOverlay
            /\ Commit(selectedGame, currentMoveIndex,
                      Append(variationMoves, currentBestMove), TRUE)
       ELSE UNCHANGED vars

ArrowRight ==
    /\ selectedGame # NoGame
    /\ IF inVariation
       THEN IF currentBestMove # "null"
            THEN /\ Len(variationMoves) < MaxOverlay
                 /\ Commit(selectedGame, currentMoveIndex,
                           Append(variationMoves, currentBestMove), inVariation)
            ELSE UNCHANGED vars
       ELSE Commit(selectedGame, goNext, variationMoves, inVariation)

\* an exit that also steps the cursor back
ShiftArrowLeft_StepsBack ==
    /\ selectedGame # NoGame
    /\ Commit(selectedGame, goPrev, <<>>, FALSE)

\* Shift+ArrowLeft
ShiftArrowLeft ==
    /\ selectedGame # NoGame
    /\ IF inVariation
       THEN Commit(selectedGame, currentMoveIndex, <<>>, FALSE)
       ELSE UNCHANGED vars

\* a step back in the overlay that never leaves the variation
ArrowLeft_KeepsFlag ==
    /\ selectedGame # NoGame
    /\ IF inVariation /\ Len(variationMoves) > 0
       THEN Commit(selectedGame, currentMoveIndex,
                   SubSeq(variationMoves, 1, Len(variationMoves) - 1), inVariation)
       ELSE Commit(selectedGame, goPrev, variationMoves, inVariation)

ArrowLeft ==
    /\ selectedGame # NoGame
    /\ IF inVariation /\ Len(variationMoves) > 0
       THEN Commit(selectedGame, currentMoveIndex,
                   SubSeq(variationMoves, 1, Len(variationMoves) - 1),
                   IF Len(variationMoves) - 1 = 0 THEN FALSE ELSE inVariation)
       ELSE Commit(selectedGame, goPrev, variationMoves, inVariation)

ArrowUp ==
    /\ selectedGame # NoGame
    /\ Commit(selectedGame, goFirst, <<>>, FALSE)

ArrowDown ==
    /\ selectedGame # NoGame
    /\ Commit(selectedGame, goLast, <<>>, FALSE)

\* ------------------------------------------------ useStockfish (part_003)
\* a line the worker posts; fen is the position of the search that printed it
Line(kind, d, stype, value, pv, move, fen) ==
    [kind |-> kind, depth |-> d, stype |-> stype, value |-> value, pv |-> pv,
     move |-> move, fen |-> fen]

PlainLine(kind) == Line(kind, 0, "-", 0, <<>>, "null", NullFen)

\* isBlackToMove (260-265)
isBlackToMove == currentFenRef # NullFen /\ currentFenRef.turn = "b"

\* decimal digits of the magnitudes the worker reports here
IntStr(k) ==
    CASE k = 0 -> "0"
      [] k = 1 -> "1"
      [] k = 2 -> "2"
      [] k = 3 -> "3"
      [] OTHER -> "?"

\* (evalValue / 100).toFixed(2), as its sign and its digits
ToFixed2(evalValue) ==
    LET a == IF evalValue < 0 THEN 0 - evalValue ELSE evalValue
        digits == CASE a = 0 -> "0.00"
                    [] a = 30 -> "0.30"
                    [] a = 50 -> "0.50"
                    [] a = 80 -> "0.80"
                    [] a = 1000 -> "10.00"
                    [] OTHER -> "?"
    IN  IF evalValue < 0 THEN <<"-", digits>> ELSE <<digits>>

\* `M${evalValue}`
MateStr(evalValue) ==
    IF evalValue < 0 THEN <<"M", "-", IntStr(0 - evalValue)>> ELSE <<"M", IntStr(evalValue)>>

\* the score branch of parseUciOutput (288-305)
ScoreToEvaluation(stype, value) ==
    LET evalValue == IF isBlackToMove THEN 0 - value ELSE value
    IN  IF stype = "cp" THEN ToFixed2(evalValue)
        ELSE IF stype = "mate" THEN MateStr(evalValue)
        ELSE evaluation

\* pvMatch[1].split(' ').slice(0, 5)
PvSlice(pv) == SubSeq(pv, 1, Min(5, Len(pv)))

\* parseUciOutput (267-321) for one line
parseUciOutput(output) ==
    /\ handshake' = IF output.kind = "uciok" THEN "isready" ELSE handshake
    /\ isReady' = IF output.kind = "readyok" THEN TRUE ELSE isReady
    /\ depth' = IF output.kind = "info" /\ output.depth > 0 THEN output.depth ELSE depth
    /\ evaluation' = IF output.kind = "info"
                     THEN ScoreToEvaluation(output.stype, output.value)
                     ELSE evaluation
    /\ principalVariation' = IF output.kind = "info" /\ output.pv # <<>>
                             THEN PvSlice(output.pv)
                             ELSE principalVariation
    /\ bestMove' = IF output.kind = "bestmove" THEN output.move ELSE bestMove
    /\ bestMoveFor' = IF output.kind = "bestmove" THEN output.fen ELSE bestMoveFor
    /\ RunEffect(selectedGame, currentMoveIndex, variationMoves, inVariation, isReady',
                 IF output.kind = "bestmove" THEN FALSE ELSE isAnalyzing)
    /\ UNCHANGED <<authVars, liveVars, oauthVars, cacheVars, sideVars, listVars, navVars, currentFenRef, searches, buildVars>>
    /\ Trace

\* worker.onmessage (237-244)
OnMessage ==
    /\ fromWorker # <<>>
    /\ fromWorker' = Tail(fromWorker)
    /\ parseUciOutput(Head(fromWorker))

\* analyze (334-346)
analyze(fen) ==
    /\ currentFenRef' = fen
    /\ isAnalyzing' = TRUE
    /\ bestMove' = "null"
    /\ bestMoveFor' = NullFen
    /\ evaluation' = <<>>
    /\ depth' = 0
    /\ principalVariation' = <<>>
    /\ searches' = Append(searches, fen)

\* the setTimeout callback of the evaluation effect fires (345-347)
TimerFires ==
    \E t \in timers :
        /\ Len(searches) < MaxQueue
        /\ timers' = timers \ {t}
        /\ analyze(t.fen)
        /\ UNCHANGED <<authVars, liveVars, oauthVars, cacheVars, sideVars, listVars, navVars, effectCleanup, isReady, handshake, fromWorker,
                       buildVars, tracing, burst>>
        /\ issued' = IF tracing THEN Min(issued + 1, 2) ELSE issued

\* ------------------------------------------------------ the engine worker
\* what the worker may print for a search of fen: the score is from the side
\* to move's point of view
WorkerScores(fen) ==
    IF fen.turn = "b"
    THEN {[stype |-> "cp", value |-> 0 - 30]}
    ELSE {[stype |-> "cp", value |-> 30]}

WorkerPost(line) ==
    /\ Len(fromWorker) < lineCap
    /\ fromWorker' = Append(fromWorker, line)

WorkerUciok ==
    /\ handshake = "uci"
    /\ handshake' = "uciok"
    /\ WorkerPost(PlainLine("uciok"))
    /\ UNCHANGED <<authVars, liveVars, oauthVars, cacheVars, sideVars, listVars, navVars, effectVars, hookVars, searches, buildVars, historyVars>>

WorkerReadyok ==
    /\ handshake = "isready"
    /\ handshake' = "ready"
    /\ WorkerPost(PlainLine("readyok"))
    /\ UNCHANGED <<authVars, liveVars, oauthVars, cacheVars, sideVars, listVars, navVars, effectVars, hookVars, searches, buildVars, historyVars>>

WorkerInfo ==
    /\ searches # <<>>
    /\ \E sc \in WorkerScores(Head(searches)) :
           WorkerPost(Line("info", ReplayDepth, sc.stype, sc.value,
                           <<WorkerBest(Head(searches))>>, "null", Head(searches)))
    /\ UNCHANGED <<authVars, liveVars, oauthVars, cacheVars, sideVars, listVars, navVars, effectVars, hookVars, handshake, searches, buildVars,
                   historyVars>>

WorkerBestMove ==
    /\ searches # <<>>
    /\ searches' = Tail(searches)
    /\ WorkerPost(Line("bestmove", 0, "-", 0, <<>>, WorkerBest(Head(searches)),
                       Head(searches)))
    /\ UNCHANGED <<authVars, liveVars, oauthVars, cacheVars, sideVars, listVars, navVars, effectVars, hookVars, handshake, buildVars, historyVars>>

\* a mate score, from the side to move's point of view: it mates in two, or
\* is mated in two
WorkerMates == {[stype |-> "mate", value |-> 2], [stype |-> "mate", value |-> 0 - 2]}

WorkerMate ==
    /\ searches # <<>>
    /\ \E sc \in WorkerMates :
           WorkerPost(Line("info", ReplayDepth, sc.stype, sc.value,
                           <<WorkerBest(Head(searches))>>, "null", Head(searches)))
    /\ UNCHANGED <<authVars, liveVars, oauthVars, cacheVars, sideVars, listVars, navVars, effectVars, hookVars, handshake, searches, buildVars,
                   historyVars>>

\* a line none of the patterns of parseUciOutput matches ('id name ...',
\* 'option name ...')
WorkerOther ==
    /\ WorkerPost(PlainLine("other"))
    /\ UNCHANGED <<authVars, liveVars, oauthVars, cacheVars, sideVars, listVars, navVars, effectVars, hookVars, handshake, searches, buildVars,
                   historyVars>>

\* ------------------------------------------- the timeline builder alone
\* a game whose move list is the given tokens and nothing else
TokenGame(list) == [NoGame EXCEPT !.id = 1, !.moves = list]

\* one more token in the move list; the builder runs on the whole list
AppendToken ==
    /\ Len(tokens) < MaxMoves
    /\ \E t \in Tokens :
           /\ tokens' = Append(tokens, t)
           /\ built' = gameData(TokenGame(tokens'))
    /\ UNCHANGED <<authVars, liveVars, oauthVars, cacheVars, sideVars, listVars, navVars, effectVars, hookVars, workerVars, historyVars>>

ClearTokens ==
    /\ tokens # <<>>
    /\ tokens' = <<>>
    /\ built' = gameData(TokenGame(tokens'))
    /\ UNCHANGED <<authVars, liveVars, oauthVars, cacheVars, sideVars, listVars, navVars, effectVars, hookVars, workerVars, historyVars>>

\* ------------------------------------ PGN text (chesscom.js 135-152)
\* A text is a sequence of characters.
DigitChars == {"0", "1", "2", "3", "4", "5", "6", "7", "8", "9"}
\* \s
SpaceChars == {" ", "\n"}

\* text.indexOf(c) + 1
IndexOf(text, c) ==
    IF \E i \in 1..Len(text) : text[i] = c
    THEN CHOOSE i \in 1..Len(text) : text[i] = c /\ \A j \in 1..(i - 1) : text[j] # c
    ELSE 0

Drop(text, k) == SubSeq(text, k + 1, Len(text))

\* text.split(sep)
RECURSIVE SplitOn(_, _)
SplitOn(text, sep) ==
    IF IndexOf(text, sep) = 0
    THEN <<text>>
    ELSE <<SubSeq(text, 1, IndexOf(text, sep) - 1)>>
           \o SplitOn(Drop(text, IndexOf(text, sep)), sep)

\* lines.join(sep)
RECURSIVE JoinWith(_, _)
JoinWith(lines, sep) ==
    IF lines = <<>> THEN <<>>
    ELSE IF Len(lines) = 1 THEN lines[1]
    ELSE lines[1] \o <<sep>> \o JoinWith(Tail(lines), sep)

\* text.trim()
RECURSIVE Trim(_)
Trim(text) ==
    IF text = <<>> THEN <<>>
    ELSE IF text[1] \in SpaceChars THEN Trim(Tail(text))
    ELSE IF text[Len(text)] \in SpaceChars THEN Trim(SubSeq(text, 1, Len(text) - 1))
    ELSE text

\* how many characters of cs the text starts with
RECURSIVE RunOf(_, _)
RunOf(text, cs) ==
    IF text # <<>> /\ text[1] \in cs THEN 1 + RunOf(Tail(text), cs) ELSE 0

\* .replace(/\d+\.\s*/g, '')
RECURSIVE RemoveMoveNumbers(_)
RemoveMoveNumbers(text) ==
    IF text = <<>> THEN <<>>
    ELSE LET d == RunOf(text, DigitChars)
             afterDot == Drop(text, d + 1)
         IN  IF d > 0 /\ Len(text) > d /\ text[d + 1] = "."
             THEN RemoveMoveNumbers(Drop(afterDot, RunOf(afterDot, SpaceChars)))
             ELSE <<text[1]>> \o RemoveMoveNumbers(Tail(text))

\* .replace(/\{[^}]*\}/g, '') and .replace(/\([^)]*\)/g, '')
RECURSIVE RemoveDelimited(_, _, _)
RemoveDelimited(text, open, close) ==
    IF text = <<>> THEN <<>>
    ELSE IF text[1] = open /\ IndexOf(text, close) > 0
         THEN RemoveDelimited(Drop(text, IndexOf(text, close)), open, close)
         ELSE <<text[1]>> \o RemoveDelimited(Tail(text), open, close)

\* the alternatives of /1-0|0-1|1\/2-1\/2|\*/, in the order they are tried
ResultMarkers ==
    << <<"1", "-", "0">>, <<"0", "-", "1">>,
       <<"1", "/", "2", "-", "1", "/", "2">>, <<"*">> >>

startsWith(text, prefix) ==
    Len(text) >= Len(prefix) /\ SubSeq(text, 1, Len(prefix)) = prefix

\* .replace(/1-0|0-1|1\/2-1\/2|\*/g, '')
RECURSIVE RemoveResults(_)
RemoveResults(text) ==
    IF text = <<>> THEN <<>>
    ELSE IF \E k \in 1..Len(ResultMarkers) : startsWith(text, ResultMarkers[k])
         THEN LET k == CHOOSE k \in 1..Len(ResultMarkers) :
                         /\ startsWith(text, ResultMarkers[k])
                         /\ \A j \in 1..(k - 1) : ~startsWith(text, ResultMarkers[j])
              IN  RemoveResults(Drop(text, Len(ResultMarkers[k])))
         ELSE <<text[1]>> \o RemoveResults(Tail(text))

\* line => !line.startsWith('[') && line.trim()
MoveTextLine(line) == ~startsWith(line, <<"[">>) /\ Trim(line) # <<>>

\* extractMovesFromPgn (135-152); the empty text stands for a missing pgn
extractMovesFromPgn(pgn) ==
    IF pgn = <<>> THEN <<>>
    ELSE LET lines == SelectSeq(SplitOn(pgn, "\n"), MoveTextLine)
             moveText == JoinWith(lines, " ")
         IN  Trim(RemoveResults(
                      RemoveDelimited(
                          RemoveDelimited(RemoveMoveNumbers(moveText), "{", "}"),
                          "(", ")")))

\* a blank for the filter of split(' ')
NonEmpty(word) == word # <<>>

\* selectedGame.moves.split(' ').filter(m => m)   (Recents.jsx 65)
MoveTokens(moves) == SelectSeq(SplitOn(moves, " "), NonEmpty)

\* The PGN Chess.com writes for a game: the header lines, an empty line, and
\* the move text on one line: 'n. ' before a White move, the move, its clock
\* in braces when the game has clocks, 'n... ' before a Black move that
\* follows a clock, and the result.
PgnSans == {<<"e", "4">>, <<"N", "f", "3">>}
PgnResults == {<<"1", "-", "0">>, <<"1", "/", "2", "-", "1", "/", "2">>, <<"*">>}
HeaderLine == <<"[", "E", " ", "\"", "x", "\"", "]", "\n">>
ClockComment == <<"{", "[", "%", "c", "l", "k", " ", "0", ":", "0", "9", ".", "9", "]", "}", " ">>

\* the move number as text, for the plies of a game this short
NumberText(k) == <<IntStr((k + 1) \div 2)>>

RECURSIVE MoveText(_, _)
MoveText(moves, k) ==
    IF k > Len(moves) THEN <<>>
    ELSE LET number == IF k % 2 = 1
                       THEN NumberText(k) \o <<".", " ">>
                       ELSE IF moves[k - 1].clock
                            THEN NumberText(k) \o <<".", ".", ".", " ">>
                            ELSE <<>>
         IN  number \o moves[k].san \o <<" ">>
               \o (IF moves[k].clock THEN ClockComment ELSE <<>>)
               \o MoveText(moves, k + 1)

RECURSIVE Headers(_)
Headers(n) == IF n = 0 THEN <<>> ELSE HeaderLine \o Headers(n - 1)

ChesscomPgn(game) ==
    Headers(game.headers) \o <<"\n">> \o MoveText(game.moves, 1) \o game.result \o <<"\n">>

\* one more header line, one more move, another result: the text is
\* extracted anew each time
PgnChanged(game) ==
    /\ pgnGame' = game
    /\ extracted' = extractMovesFromPgn(ChesscomPgn(game))
    /\ UNCHANGED <<authVars, liveVars, oauthVars, cacheVars, listVars, navVars, effectVars,
                   hookVars, workerVars, buildVars, historyVars>>
    /\ UNCHANGED <<reading, chesscom, uciLine>>

AddPgnHeader ==
    /\ pgnGame.headers < MaxHeaders
    /\ PgnChanged([pgnGame EXCEPT !.headers = @ + 1])

AddPgnMove ==
    /\ Len(pgnGame.moves) < MaxPlies
    /\ \E san \in PgnSans : \E clock \in BOOLEAN :
           PgnChanged([pgnGame EXCEPT !.moves = Append(@, [san |-> san, clock |-> clock])])

SetPgnResult ==
    \E result \in PgnResults : PgnChanged([pgnGame EXCEPT !.result = result])

\* ------------------------------------------------- auth store (authStore.js)
\* access tokens and the profiles Lichess returns for them
NoToken == "null"
AccessTokens == {"tokA"}
NoUser == "null"
UserOf(t) == IF t = "tokA" THEN "alice" ELSE NoUser
NoError == "null"

\* the games store (main.jsx 19-116) keeps, for each platform, the cached
\* games, the loading flag, the fetched flag and the error
Platforms == {"lichess", "chesscom"}

EmptyCache ==
    [p \in Platforms |->
        [games |-> <<>>, loading |-> FALSE, fetched |-> FALSE, error |-> NoError]]

\* a clear that empties the cache of every platform
clearGames_All(store, p) ==
    [q \in Platforms |->
        [store[q] EXCEPT !.games = <<>>, !.fetched = FALSE, !.error = NoError]]

\* clearLichessGames (88-94), clearChesscomGames (97-103)
clearGames(store, p) ==
    [store EXCEPT ![p].games = <<>>, ![p].fetched = FALSE, ![p].error = NoError]

\* the requests of platform p in flight are from before a clear (cleared is
\* history: the code keeps no such mark)
MarkCleared(reqs, p) ==
    [k \in 1..Len(reqs) |->
        IF reqs[k].platform = p THEN [reqs[k] EXCEPT !.cleared = TRUE] ELSE reqs[k]]

\* how a profile request can end: the status of the response, or the fetch
\* itself rejecting (a TypeError whose message is the browser's)
Outcomes == {"200", "401", "500", "network-chromium", "network-firefox"}

\* err.message: getLichessProfile throws 'Failed to fetch profile' on every
\* response that is not ok
ErrMessage(outcome) ==
    CASE outcome \in {"401", "500"} -> "Failed to fetch profile"
      [] outcome = "network-chromium" -> "Failed to fetch"
      [] outcome = "network-firefox" -> "NetworkError when attempting to fetch resource."
      [] OTHER -> NoError

\* a store that takes no failure for an expired token
LooksExpired_Never(message) == FALSE

\* err.message.includes('401') || err.message.includes('Failed')
LooksExpired(message) == message \in {"Failed to fetch profile", "Failed to fetch"}

\* no Chess.com account: chesscomUsername and chesscomUser null, nothing in
\* localStorage, no request in flight (thrown is history: the last
\* setChesscomUsername call rejected)
NoAccount ==
    [stored |-> NoUser, chesscomUsername |-> NoUser, chesscomUser |-> NoUser,
     requests |-> <<>>, thrown |-> FALSE]

\* sessionStorage without the items of startLichessAuth
NoParam == "null"
NoSession == [state |-> NoParam, verifier |-> NoParam]

\* the games /api/account/playing and Chess.com report
LiveGame(gameId, source, fen) == [gameId |-> gameId, source |-> source, fen |-> fen]
NoLiveGame == LiveGame("null", "null", NullFen)
\* (a Lichess game is stored as /api/account/playing sent it: its source is
\* Lichess's own field, how the game was created; nothing sets it to 'lichess')
LiveA == LiveGame("gA", "friend", StartFen)
LiveB == LiveGame("gB", "friend", StartFen)
LiveC == LiveGame("cC", "chesscom", ApplyMove(StartFen, "e2e4"))

\* allGames of fetchPlayingGames: Lichess games only with a token, in the
\* order of the concatenation
PlayingLists(tok) ==
    IF tok = NoToken
    THEN {<<>>, <<LiveC>>}
    ELSE {<<>>, <<LiveA>>, <<LiveA, LiveB>>, <<LiveA, LiveC>>}

\* ------------------------------------------- live games (Live.jsx, Home.jsx)
\* a line of the game stream as parsed JSON: moves is data.state.moves split
\* on blanks, empty when the line has none
StreamLine(gameId, moves) == [kind |-> "line", id |-> gameId, moves |-> moves]
EndOfStream == [kind |-> "end", id |-> "-", moves |-> <<>>]
\* a line JSON.parse throws on
Malformed == [kind |-> "malformed", id |-> "-", moves |-> <<>>]
NoLiveState == [kind |-> "null", id |-> "-", moves |-> <<>>]
\* Home: a Chess.com game shown as its own state
GameAsState(game) == [kind |-> "game", id |-> game.gameId, moves |-> <<>>]

MoveLists == {<<>>, <<"e2e4", "h1h8", "e7e5">>}

\* a loop that gives up at the first move that throws
RECURSIVE ReplayLive_Stops(_, _)
ReplayLive_Stops(fen, moves) ==
    IF moves = <<>>
    THEN fen
    ELSE IF Legal(fen, Head(moves))
         THEN ReplayLive_Stops(ApplyMove(fen, Head(moves)), Tail(moves))
         ELSE fen

\* the for loop of onMove: every move that applies is made, one that throws
\* is skipped
RECURSIVE ReplayLive(_, _)
ReplayLive(fen, moves) ==
    IF moves = <<>>
    THEN fen
    ELSE IF Legal(fen, Head(moves))
         THEN ReplayLive(ApplyMove(fen, Head(moves)), Tail(moves))
         ELSE ReplayLive(fen, Tail(moves))

\* streamGame: a fetch with the signal of a new AbortController
\* (discarded records that lines in flight were dropped by the abort, skipped
\* that the line read last was dropped because it did not parse: a mark kept
\* while the stream is read)
NewStream(gameId) ==
    [gameId |-> gameId, status |-> "open", buffer |-> <<>>, discarded |-> FALSE,
     skipped |-> FALSE]

\* an effect that leaves the stream of the game before running
AbortStream_Forgets(strs, ref) == strs

\* streamCleanupRef.current(): controller.abort() of the stream the ref holds
AbortStream(strs, ref) ==
    IF ref = 0 \/ strs[ref].status # "open"
    THEN strs
    ELSE [strs EXCEPT ![ref].status = "aborted", ![ref].skipped = FALSE]

\* the auto-select effect (Live 33-40, Home 56-63)
AutoSelect(sel, list) ==
    IF Len(list) > 0 /\ sel = NoLiveGame
    THEN list[1]
    ELSE IF Len(list) = 0 THEN NoLiveGame ELSE sel

\* what the stream effect works on
LiveState(sel, gs, chess, ref, reg, strs) ==
    [sel |-> sel, gs |-> gs, chess |-> chess, ref |-> ref, reg |-> reg, strs |-> strs]

\* the cleanup the last run of the stream effect returned, if it returned one
StreamCleanup(st) ==
    IF st.reg THEN [st EXCEPT !.strs = AbortStream(st.strs, st.ref)] ELSE st

\* the stream effect of Live.jsx (43-90) for a render with sel and tok
StreamEffectLive(st0, sel, tok) ==
    LET st == StreamCleanup(st0)
        aborted == AbortStream(st.strs, st.ref)
    IN  IF sel = NoLiveGame \/ tok = NoToken
        THEN [st EXCEPT !.sel = sel, !.reg = FALSE]
        ELSE [st EXCEPT !.sel = sel,
                        !.strs = Append(aborted, NewStream(sel.gameId)),
                        !.ref = Len(aborted) + 1,
                        !.reg = TRUE]

\* the stream effect of Home.jsx (65-127)
StreamEffectHome(st0, sel, tok) ==
    LET st == StreamCleanup(st0)
        aborted == AbortStream(st.strs, st.ref)
    IN  IF sel = NoLiveGame
        THEN [st EXCEPT !.sel = sel, !.reg = FALSE]
        ELSE IF sel.source = "chesscom"
             THEN [st EXCEPT !.sel = sel, !.strs = aborted, !.ref = 0, !.reg = FALSE,
                             !.gs = GameAsState(sel), !.chess = sel.fen]
             ELSE IF tok # NoToken
                  THEN [st EXCEPT !.sel = sel,
                                  !.strs = Append(aborted, NewStream(sel.gameId)),
                                  !.ref = Len(aborted) + 1,
                                  !.reg = TRUE]
                  ELSE [st EXCEPT !.sel = sel, !.strs = aborted, !.ref = 0, !.reg = TRUE]

StreamEffect(st, sel, tok) ==
    IF page = "Live" THEN StreamEffectLive(st, sel, tok) ELSE StreamEffectHome(st, sel, tok)

\* The renders that follow a change of the selection, the game list or the
\* token.  The stream effect runs for the render with the selection the
\* handler set, when that or the token changed; the auto-select effect may
\* then change the selection, and the stream effect runs once more.
LiveRenders(sel, gs, chess, strs, list, tok) ==
    LET st0 == LiveState(selectedLiveGame, gs, chess, streamCleanupRef,
                         streamEffectCleanup, strs)
        st1 == IF sel # selectedLiveGame \/ tok # token
               THEN StreamEffect(st0, sel, tok)
               ELSE st0
        auto == AutoSelect(sel, list)
        st2 == IF auto # sel THEN StreamEffect(st1, auto, tok) ELSE st1
    IN  [st2 EXCEPT !.gs = IF Len(list) = 0 THEN NoLiveState ELSE @]

\* a handler's updates of the live page, the renders and the effects
LiveCommit(sel, gs, chess, strs, list, tok) ==
    LET st == LiveRenders(sel, gs, chess, strs, list, tok)
    IN  /\ Len(st.strs) <= MaxStreams
        /\ selectedLiveGame' = st.sel
        /\ liveGameState' = st.gs
        /\ liveChess' = st.chess
        /\ streamCleanupRef' = st.ref
        /\ streamEffectCleanup' = st.reg
        /\ streams' = st.strs
        /\ page' = page

\* a store update as the live page sees it
StoreChanged(list, tok) ==
    LiveCommit(selectedLiveGame, liveGameState, liveChess, streams, list, tok)

\* logout (51-61), as the values it sets
LoggedOut ==
    /\ storedToken' = NoToken
    /\ isAuthenticated' = FALSE
    /\ token' = NoToken
    /\ user' = NoUser
    /\ playingGames' = <<>>
    /\ gamesStore' = clearGames(gamesStore, "lichess")
    /\ gameRequests' = MarkCleared(gameRequests, "lichess")

\* setToken (39-49) up to its await
setToken(t) ==
    /\ Len(profileRequests) < MaxRequests
    /\ storedToken' = t
    /\ token' = t
    /\ isAuthenticated' = TRUE
    /\ isLoading' = TRUE
    /\ profileRequests' = Append(profileRequests, [by |-> "setToken", token |-> t])
    /\ UNCHANGED <<user, error, playingGames, answered>>
    /\ StoreChanged(playingGames, t)
    /\ UNCHANGED cacheVars
    /\ UNCHANGED replayVars

\* a login completes
SetToken(t) ==
    /\ setToken(t)
    /\ UNCHANGED oauthVars

Logout ==
    /\ LoggedOut
    /\ error' = NoError
    /\ UNCHANGED <<isLoading, profileRequests, answered>>
    /\ StoreChanged(<<>>, NoToken)
    /\ UNCHANGED <<replayVars, oauthVars>>

\* loadProfile (63-78) up to its await
LoadProfile ==
    /\ token # NoToken
    /\ Len(profileRequests) < MaxRequests
    /\ isLoading' = TRUE
    /\ profileRequests' = Append(profileRequests, [by |-> "loadProfile", token |-> token])
    /\ UNCHANGED <<storedToken, token, isAuthenticated, user, error, playingGames, answered>>
    /\ UNCHANGED liveVars
    /\ UNCHANGED cacheVars
    /\ UNCHANGED <<replayVars, oauthVars>>

\* profileRequests without its k-th element
Without(reqs, k) == SubSeq(reqs, 1, k - 1) \o SubSeq(reqs, k + 1, Len(reqs))

\* the rest of setToken (44-48) or loadProfile (69-77) once the profile
\* request k has ended with the given outcome
ProfileAnswered(k, outcome) ==
    LET req == profileRequests[k]
        message == ErrMessage(outcome)
    IN  /\ profileRequests' = Without(profileRequests, k)
        /\ answered' = [by |-> req.by, outcome |-> outcome]
        /\ isLoading' = FALSE
        /\ IF outcome = "200"
           THEN /\ user' = UserOf(req.token)
                /\ UNCHANGED <<storedToken, token, isAuthenticated, error, playingGames>>
                /\ UNCHANGED liveVars
                /\ UNCHANGED cacheVars
           ELSE IF req.by = "loadProfile" /\ LooksExpired(message)
                THEN /\ LoggedOut
                     /\ error' = message
                     /\ StoreChanged(<<>>, NoToken)
                ELSE /\ error' = message
                     /\ UNCHANGED <<storedToken, token, isAuthenticated, user, playingGames>>
                     /\ UNCHANGED liveVars
                     /\ UNCHANGED cacheVars
        /\ UNCHANGED <<replayVars, oauthVars>>

ProfileResponse ==
    \E k \in 1..Len(profileRequests) : \E outcome \in Outcomes : ProfileAnswered(k, outcome)

\* fetchPlayingGames (80-116)
FetchPlayingGames ==
    \E list \in PlayingLists(token) :
        /\ playingGames' = list
        /\ UNCHANGED <<storedToken, token, isAuthenticated, user, isLoading, error,
                       profileRequests, answered>>
        /\ StoreChanged(list, token)
        /\ UNCHANGED cacheVars
        /\ UNCHANGED <<replayVars, oauthVars>>

\* the comparator of allGames.sort (107-112)
compare(a, b) ==
    IF a.source # b.source
    THEN IF a.source = "lichess" THEN 0 - 1 ELSE 1
    ELSE 0

\* Array.prototype.sort on a list this short is an insertion sort.  With a
\* comparator that is not consistent the order is implementation-defined:
\* one engine moves an item left past an element only when
\* comparefn(item, element) < 0, another shifts the elements right while
\* comparefn(element, item) > 0.
Engines == {"keeping", "shifting"}

RECURSIVE InsertInto(_, _, _)
InsertInto(sorted, item, engine) ==
    IF sorted = <<>>
    THEN <<item>>
    ELSE LET last == sorted[Len(sorted)]
             moves == IF engine = "keeping"
                      THEN compare(item, last) < 0
                      ELSE compare(last, item) > 0
         IN  IF moves
             THEN Append(InsertInto(SubSeq(sorted, 1, Len(sorted) - 1), item, engine), last)
             ELSE Append(sorted, item)

RECURSIVE SortWith(_, _)
SortWith(list, engine) ==
    IF list = <<>>
    THEN <<>>
    ELSE InsertInto(SortWith(SubSeq(list, 1, Len(list) - 1), engine),
                    list[Len(list)], engine)

\* what a platform answers to the request for the current games
Answer(ok, list) == [ok |-> ok, games |-> list]
LichessAnswers == {Answer(FALSE, <<>>)} \cup {Answer(TRUE, l) : l \in {<<>>, <<LiveA>>, <<LiveA, LiveB>>}}
ChesscomAnswers == {Answer(FALSE, <<>>)} \cup {Answer(TRUE, l) : l \in {<<>>, <<LiveC>>}}

\* lichessGames (87-94): empty without a token and when the request failed
lichessGamesOf(answer) ==
    IF token # NoToken /\ answer.ok THEN answer.games ELSE <<>>

\* chesscomGames (96-102): empty without a username and when the request failed
chesscomGamesOf(answer) ==
    IF chesscom.chesscomUsername # NoUser /\ answer.ok THEN answer.games ELSE <<>>

\* fetchPlayingGames (80-116) with the answers of the two platforms
FetchPlayingGamesWith(lichess, chesscomAnswer, engine) ==
    LET allGames == SortWith(lichessGamesOf(lichess) \o chesscomGamesOf(chesscomAnswer),
                             engine)
    IN  /\ playingGames' = allGames
        /\ UNCHANGED <<storedToken, token, isAuthenticated, user, isLoading, error,
                       profileRequests, answered>>
        /\ StoreChanged(allGames, token)
        /\ UNCHANGED cacheVars
        /\ UNCHANGED <<replayVars, oauthVars>>

\* pollGames (Live 20-24, Home 44-48)
PollGames ==
    \E lichess \in LichessAnswers : \E chesscomAnswer \in ChesscomAnswers :
        \E engine \in Engines : FetchPlayingGamesWith(lichess, chesscomAnswer, engine)

\* the game buttons of the live list (Live 249)
ClickLiveGame ==
    \E k \in 1..Len(playingGames) :
        /\ LiveCommit(playingGames[k], liveGameState, liveChess, streams, playingGames, token)
        /\ UNCHANGED <<authVars, cacheVars>>
        /\ UNCHANGED <<replayVars, oauthVars>>

\* the platform writes one more line to a stream, or ends it; the client's
\* abort does not reach it at once, so a line may still arrive afterwards
ServerSend ==
    \E i \in 1..Len(streams) :
        /\ streams[i].status \in {"open", "aborted"}
        /\ Len(streams[i].buffer) < MaxBuffer
        /\ \E ev \in {StreamLine(streams[i].gameId, moves) : moves \in MoveLists}
                     \cup {EndOfStream, Malformed} :
               streams' = [streams EXCEPT ![i].buffer = Append(@, ev)]
        /\ UNCHANGED <<page, selectedLiveGame, liveGameState, liveChess, streamCleanupRef,
                       streamEffectCleanup>>
        /\ UNCHANGED <<authVars, cacheVars>>
        /\ UNCHANGED <<replayVars, oauthVars>>

\* the read loop of streamGame hands the next line to onMove (Live 54-75), or
\* the end to onEnd (76-80); a line that does not parse ends in the catch of
\* the loop body (lichess.js 161-166)
Deliver(i) ==
    LET ev == Head(streams[i].buffer)
        rest == [streams EXCEPT ![i].buffer = Tail(@),
                                ![i].status = IF ev.kind = "end" THEN "done" ELSE @,
                                ![i].skipped = (ev.kind = "malformed")]
    IN  IF ev.kind = "end"
        THEN LiveCommit(NoLiveGame, liveGameState, liveChess, rest, playingGames, token)
        ELSE IF ev.kind = "malformed"
        THEN LiveCommit(selectedLiveGame, liveGameState, liveChess, rest, playingGames, token)
        ELSE LiveCommit(selectedLiveGame, ev,
                        IF ev.moves # <<>> THEN ReplayLive(StartFen, ev.moves) ELSE liveChess,
                        rest, playingGames, token)

\* a read loop that goes on after the abort
StreamRead_IgnoresAbort(i) ==
    /\ streams[i].buffer # <<>>
    /\ Deliver(i)
    /\ UNCHANGED <<authVars, cacheVars>>
    /\ UNCHANGED <<replayVars, oauthVars>>

\* reader.read() settles (lichess.js 148-175): with a line on an open stream,
\* and on an aborted stream by rejecting with an AbortError, which ends the
\* loop in the catch whatever was in flight
StreamRead(i) ==
    /\ IF streams[i].status = "open"
       THEN /\ streams[i].buffer # <<>>
            /\ Deliver(i)
       ELSE /\ streams[i].status = "aborted"
            /\ streams' = [streams EXCEPT ![i].status = "closed",
                                          ![i].buffer = <<>>,
                                          ![i].discarded = (streams[i].buffer # <<>>)]
            /\ UNCHANGED <<page, selectedLiveGame, liveGameState, liveChess,
                           streamCleanupRef, streamEffectCleanup>>
    /\ UNCHANGED <<authVars, cacheVars>>
    /\ UNCHANGED <<replayVars, oauthVars>>

ReadStream == \E i \in 1..Len(streams) : StreamRead(i)

\* ------------------------- streamGame, chunk by chunk (lichess.js 134-178)
\* The response body is a text of lines, each ended by a newline.  A line is
\* JSON ("a", "bb"), not JSON ("x"), empty or blank.
LineTexts == {<<"a">>, <<"b", "b">>, <<"x">>, <<>>, <<" ">>}

RECURSIVE NdjsonTexts(_)
NdjsonTexts(n) ==
    IF n = 0
    THEN {<<>>}
    ELSE {<<>>} \cup {line \o <<"\n">> \o rest : line \in LineTexts, rest \in NdjsonTexts(n - 1)}

\* JSON.parse(line) returns: white space around the value is ignored
JsonParses(line) ==
    /\ Trim(line) # <<>>
    /\ \A k \in 1..Len(Trim(line)) : Trim(line)[k] \in {"a", "b"}

\* the value JSON.parse(line) returns, as the text of the value
JsonParse(line) == Trim(line)

\* if (line.trim()) { try { onMove(JSON.parse(line)) } catch ... }
ReachesOnMove(line) == Trim(line) # <<>> /\ JsonParses(line)

\* the calls of onMove the for loop makes for lines (158-167)
RECURSIVE OnMoveCalls(_)
OnMoveCalls(lines) ==
    IF lines = <<>>
    THEN <<>>
    ELSE IF ReachesOnMove(Head(lines))
         THEN <<JsonParse(Head(lines))>> \o OnMoveCalls(Tail(lines))
         ELSE OnMoveCalls(Tail(lines))

\* a loop that starts every chunk with an empty buffer
Carry_Dropped(lines) == <<>>

\* buffer = lines.pop()
Carry(lines) == lines[Len(lines)]

\* no streamGame call yet (carried is history: a chunk ended inside a line)
NoReading ==
    [text |-> <<>>, body |-> <<>>, buffer |-> <<>>, onMove |-> <<>>, onEnd |-> 0,
     reader |-> "idle", carried |-> FALSE]

ReadingChanged(r) ==
    /\ reading' = r
    /\ UNCHANGED <<authVars, liveVars, oauthVars, cacheVars, listVars, navVars, effectVars,
                   hookVars, workerVars, buildVars, historyVars>>
    /\ UNCHANGED <<pgnVars, chesscom, uciLine>>

\* streamGame is called and the fetch resolves with a response (134-144)
StreamGame ==
    /\ reading.reader = "idle"
    /\ \E text \in NdjsonTexts(MaxStreamLines) :
           ReadingChanged([NoReading EXCEPT !.text = text, !.body = text,
                                            !.reader = "reading"])

\* reader.read() resolves with the next n bytes (148, 154-167)
ReadChunk ==
    /\ reading.reader = "reading"
    /\ \E n \in 1..Len(reading.body) :
           LET value == SubSeq(reading.body, 1, n)
               lines == SplitOn(reading.buffer \o value, "\n")
               complete == SubSeq(lines, 1, Len(lines) - 1)
           IN  ReadingChanged([reading EXCEPT
                                  !.body = Drop(reading.body, n),
                                  !.buffer = Carry(lines),
                                  !.onMove = @ \o OnMoveCalls(complete),
                                  !.carried = @ \/ Carry(lines) # <<>>])

\* reader.read() resolves with done (149-152)
ReadDone ==
    /\ reading.reader = "reading"
    /\ reading.body = <<>>
    /\ ReadingChanged([reading EXCEPT !.onEnd = @ + 1, !.reader = "done"])

\* the function streamGame returned is called: controller.abort() (177)
AbortReading ==
    /\ reading.reader = "reading"
    /\ ReadingChanged([reading EXCEPT !.reader = "aborted"])

\* the pending read rejects with an AbortError, which the catch drops (170-174)
ReadRejects ==
    /\ reading.reader = "aborted"
    /\ ReadingChanged([reading EXCEPT !.reader = "closed"])

\* ------------------------------- OAuth (lichess.js 37-95, AuthCallback.jsx)
\* generateRandomString(16) and the verifier generated along with it
OAuthStates == {"s1", "s2"}
VerifierOf(s) == IF s = "s1" THEN "v1" ELSE "v2"

\* searchParams.get(...): null when the parameter is missing, '' when empty
Codes == {"c1"}
CodeParams == Codes \cup {NoParam, ""}
StateParams == OAuthStates \cup {NoParam, ""}
ErrorParams == {NoParam, "access_denied"}

\* a parameter as a condition of an if
Truthy(x) == x # NoParam /\ x # ""

\* startLichessAuth (37-56)
StartLichessAuth ==
    /\ \E s \in OAuthStates : oauthSession' = [state |-> s, verifier |-> VerifierOf(s)]
    /\ route' = "lichess.org/oauth"
    /\ UNCHANGED <<tokenRequests, authVars, liveVars, cacheVars, replayVars>>

\* a callback that takes any state
StateMatches_Any(state, savedState) == TRUE

\* !(state !== savedState)
StateMatches(state, savedState) == state = savedState

\* the effect of AuthCallback (15-39) with handleLichessCallback (62-69) up to
\* its fetch
Callback(code, state, err) ==
    /\ IF Truthy(err)
       THEN route' = "/?error=auth_failed" /\ UNCHANGED tokenRequests
       ELSE IF Truthy(code) /\ Truthy(state)
            THEN IF StateMatches(state, oauthSession.state)
                 THEN /\ Len(tokenRequests) < MaxRequests
                      /\ tokenRequests' = Append(tokenRequests,
                                                 [code |-> code,
                                                  verifier |-> oauthSession.verifier])
                      /\ route' = "/auth/callback"
                 ELSE route' = "/?error=token_exchange_failed" /\ UNCHANGED tokenRequests
            ELSE route' = "/" /\ UNCHANGED tokenRequests
    /\ UNCHANGED <<oauthSession, authVars, liveVars, cacheVars, replayVars>>

OAuthCallback ==
    \E code \in CodeParams : \E state \in StateParams : \E err \in ErrorParams :
        Callback(code, state, err)

\* how the token exchange can end
TokenOutcomes == {"200", "400", "network"}

\* an exchange that leaves the sessionStorage items in place
TokenAnswered_KeepsSession(k, outcome) ==
    /\ tokenRequests' = Without(tokenRequests, k)
    /\ IF outcome = "200"
       THEN /\ oauthSession' = oauthSession
            /\ \E t \in AccessTokens : setToken(t)
            /\ route' = "/"
       ELSE /\ route' = "/?error=token_exchange_failed"
            /\ UNCHANGED <<oauthSession, authVars, liveVars, cacheVars, replayVars>>

\* the rest of handleLichessCallback (84-94) and the then / catch of
\* AuthCallback (28-35) once request k has ended
TokenAnswered(k, outcome) ==
    /\ tokenRequests' = Without(tokenRequests, k)
    /\ IF outcome = "200"
       THEN /\ oauthSession' = NoSession
            /\ \E t \in AccessTokens : setToken(t)
            /\ route' = "/"
       ELSE /\ route' = "/?error=token_exchange_failed"
            /\ UNCHANGED <<oauthSession, authVars, liveVars, cacheVars, replayVars>>

TokenResponse ==
    \E k \in 1..Len(tokenRequests) : \E outcome \in TokenOutcomes : TokenAnswered(k, outcome)

\* ---------------------------------------------- games store (main.jsx 19-116)
\* the username argument: null when the account is not connected
Usernames == {"null", "alice"}

\* what getUserGames / getChesscomRecentGames resolve to, as game ids
GameLists == {<<1>>, <<1, 2>>}

\* fetchLichessGames (37-43), fetchChesscomGames (62-68) up to the await
FetchGames(p, username, force) ==
    /\ IF username = "null" \/ (gamesStore[p].fetched /\ ~force)
       THEN UNCHANGED cacheVars
       ELSE /\ Len(gameRequests) < MaxRequests
            /\ gamesStore' = [gamesStore EXCEPT ![p].loading = TRUE, ![p].error = NoError]
            /\ gameRequests' = Append(gameRequests,
                                      [platform |-> p, force |-> force, cleared |-> FALSE])
    /\ UNCHANGED <<authVars, liveVars, oauthVars, replayVars>>

FetchRecent ==
    \E p \in Platforms : \E username \in Usernames : \E force \in BOOLEAN :
        FetchGames(p, username, force)

\* the try / catch (45-58, 70-84) once request k has ended: with the games,
\* or with an error ('Failed to fetch games')
GamesAnswered(k, ok, list) ==
    LET p == gameRequests[k].platform
    IN  /\ gameRequests' = Without(gameRequests, k)
        /\ gamesStore' = IF ok
                         THEN [gamesStore EXCEPT ![p].games = list,
                                                 ![p].loading = FALSE,
                                                 ![p].fetched = TRUE]
                         ELSE [gamesStore EXCEPT ![p].error = "Failed to fetch games",
                                                 ![p].loading = FALSE,
                                                 ![p].fetched = TRUE]
        /\ UNCHANGED <<authVars, liveVars, oauthVars, replayVars>>

GamesResponse ==
    \E k \in 1..Len(gameRequests) :
        \/ \E list \in GameLists : GamesAnswered(k, TRUE, list)
        \/ GamesAnswered(k, FALSE, <<>>)

\* ------------------------------ Chess.com account (authStore.js 118-173)
\* what the username field or the caller passes
UsernameInputs == {"null", "", " ", "alice", "bob"}

\* !username?.trim()
Blank(username) == username \in {"null", "", " "}

\* how getChesscomProfile and getChesscomStats can end (chesscom.js 12-36)
ProfileOutcomes == {"200", "404", "500"}
StatsOutcomes == {"200", "500"}

ProfileMessage(outcome) ==
    IF outcome = "404" THEN "Player not found on Chess.com"
    ELSE "Failed to fetch Chess.com profile"

StatsMessage == "Failed to fetch Chess.com stats"

\* a connection that takes the profile alone for the account
BothResolved_ProfileOnly(profile, stats) == profile = "200"

\* Promise.all resolves
BothResolved(profile, stats) == profile = "200" /\ stats = "200"

\* the messages Promise.all can reject with: that of a request that failed
Rejections(profile, stats) ==
    {ProfileMessage(profile) : o \in {profile} \ {"200"}}
        \cup {StatsMessage : o \in {stats} \ {"200"}}

\* what a Chess.com action leaves alone
besidesChesscom ==
    <<storedToken, token, isAuthenticated, user, playingGames, profileRequests, answered,
      liveVars, oauthVars, pgnVars, reading, uciLine, listVars, navVars, effectVars,
      hookVars, workerVars, buildVars, historyVars>>

\* the set of clearChesscomAccount (169-172) with clearChesscomUsername (167)
ClearedAccount(account) ==
    [account EXCEPT !.stored = NoUser, !.chesscomUsername = NoUser, !.chesscomUser = NoUser]

\* setChesscomUsername (119-129) up to its await
SetChesscomUsername ==
    \E username \in UsernameInputs :
        IF Blank(username)
        THEN UNCHANGED vars
        ELSE /\ Len(chesscom.requests) < MaxRequests
             /\ isLoading' = TRUE
             /\ error' = NoError
             /\ chesscom' = [chesscom EXCEPT
                                !.requests = Append(@, [by |-> "setChesscomUsername",
                                                        username |-> username])]
             /\ UNCHANGED <<besidesChesscom, cacheVars>>

\* loadChesscomProfile (143-152) up to its await
LoadChesscomProfile ==
    /\ chesscom.chesscomUsername # NoUser
    /\ Len(chesscom.requests) < MaxRequests
    /\ isLoading' = TRUE
    /\ chesscom' = [chesscom EXCEPT
                       !.requests = Append(@, [by |-> "loadChesscomProfile",
                                               username |-> chesscom.chesscomUsername])]
    /\ UNCHANGED <<error, besidesChesscom, cacheVars>>

\* the rest of setChesscomUsername (131-140) or loadChesscomProfile (153-163)
\* once the two requests of call k have ended
ChesscomAnswered(k, profile, stats) ==
    LET req == chesscom.requests[k]
        rest == [chesscom EXCEPT !.requests = Without(@, k)]
    IN  /\ isLoading' = FALSE
        /\ IF BothResolved(profile, stats)
           THEN /\ chesscom' = IF req.by = "setChesscomUsername"
                                THEN [rest EXCEPT !.stored = req.username,
                                                  !.chesscomUsername = req.username,
                                                  !.chesscomUser = req.username,
                                                  !.thrown = FALSE]
                                ELSE [rest EXCEPT !.chesscomUser = req.username]
                /\ UNCHANGED <<error, cacheVars>>
           ELSE \E message \in Rejections(profile, stats) :
                    /\ error' = message
                    /\ IF req.by = "setChesscomUsername"
                       THEN /\ chesscom' = [rest EXCEPT !.thrown = TRUE]
                            /\ UNCHANGED cacheVars
                       ELSE IF message = "Player not found on Chess.com"
                            THEN /\ chesscom' = ClearedAccount(rest)
                                 /\ gamesStore' = clearGames(gamesStore, "chesscom")
                                 /\ gameRequests' = MarkCleared(gameRequests, "chesscom")
                            ELSE /\ chesscom' = rest
                                 /\ UNCHANGED cacheVars
        /\ UNCHANGED besidesChesscom

ChesscomResponse ==
    \E k \in 1..Len(chesscom.requests) :
        \E profile \in ProfileOutcomes : \E stats \in StatsOutcomes :
            ChesscomAnswered(k, profile, stats)

\* clearChesscomAccount (166-173)
ClearChesscomAccount ==
    /\ chesscom' = ClearedAccount(chesscom)
    /\ gamesStore' = clearGames(gamesStore, "chesscom")
    /\ gameRequests' = MarkCleared(gameRequests, "chesscom")
    /\ UNCHANGED <<isLoading, error, besidesChesscom>>

\* ------------------------------------------------------------ the program
MountedWith(account) ==
    /\ selectedGame = NoGame
    /\ currentMoveIndex = 0 - 1
    /\ variationMoves = <<>>
    /\ inVariation = FALSE
    /\ timers = {}
    /\ effectCleanup = 0
    /\ isReady = FALSE
    /\ isAnalyzing = FALSE
    /\ evaluation = <<>>
    /\ bestMove = "null"
    /\ depth = 0
    /\ principalVariation = <<>>
    /\ currentFenRef = NullFen
    /\ handshake = "uci"
    /\ searches = <<>>
    /\ fromWorker = <<>>
    /\ tokens = <<>>
    /\ built = gameData(TokenGame(<<>>))
    /\ burst = 0
    /\ issued = 0
    /\ bestMoveFor = NullFen
    /\ pgnGame = [headers |-> 0, moves |-> <<>>, result |-> <<"*">>]
    /\ extracted = extractMovesFromPgn(ChesscomPgn(pgnGame))
    /\ reading = NoReading
    /\ chesscom = account
    /\ uciLine = <<>>

\* nothing in localStorage 'chesscom_username'
Mounted == MountedWith(NoAccount)

\* the store and the live page with the stored token tok
Linked(tok) ==
    /\ storedToken = tok
    /\ token = tok
    /\ isAuthenticated = (tok # NoToken)
    /\ user = NoUser
    /\ isLoading = FALSE
    /\ error = NoError
    /\ playingGames = <<>>
    /\ profileRequests = <<>>
    /\ answered = [by |-> "-", outcome |-> "-"]
    /\ selectedLiveGame = NoLiveGame
    /\ liveGameState = NoLiveState
    /\ liveChess = StartFen
    /\ streamCleanupRef = 0
    /\ streamEffectCleanup = FALSE
    /\ streams = <<>>
    /\ oauthSession = NoSession
    /\ tokenRequests = <<>>
    /\ route = "/"
    /\ gamesStore = EmptyCache
    /\ gameRequests = <<>>

Init ==
    /\ Mounted
    /\ games = Games
    /\ lineCap = MaxQueue
    /\ tracing = FALSE
    /\ Linked(NoToken)
    /\ page = "Live"

Next ==
    \/ \E game \in Games : SelectGame(game)
    \/ FetchRecentGames
    \/ ClickFirst
    \/ ClickPrev
    \/ ClickNext
    \/ ClickLast
    \/ ClickMove
    \/ ShiftArrowRight
    \/ ArrowRight
    \/ ShiftArrowLeft
    \/ ArrowLeft
    \/ ArrowUp
    \/ ArrowDown
    \/ TimerFires
    \/ OnMessage
    \/ WorkerUciok
    \/ WorkerReadyok
    \/ WorkerInfo
    \/ WorkerBestMove

Spec == Init /\ [][Next]_vars

\* the page with a one-game list, with the debounce history recorded
InitDebounce ==
    /\ Mounted
    /\ games = {Game1}
    /\ lineCap = MaxQueue
    /\ tracing = TRUE
    /\ Linked(NoToken)
    /\ page = "Live"

SpecDebounce == InitDebounce /\ [][Next]_vars

\* the page with a one-game list stepped through with the buttons, and a
\* worker that may have MaxLines lines waiting and prints mate scores and
\* lines of no interest as well
InitEngine ==
    /\ Mounted
    /\ games = {Game1}
    /\ lineCap = MaxLines
    /\ tracing = FALSE
    /\ Linked(NoToken)
    /\ page = "Live"

NextEngine ==
    \/ \E game \in Games : SelectGame(game)
    \/ ClickPrev
    \/ ClickNext
    \/ TimerFires
    \/ OnMessage
    \/ WorkerUciok
    \/ WorkerReadyok
    \/ WorkerInfo
    \/ WorkerMate
    \/ WorkerOther
    \/ WorkerBestMove

SpecEngine == InitEngine /\ [][NextEngine]_vars

\* ------------------------------------------- the evaluation bar (EvalBar)
\* currentEvaluation (Recents.jsx 318-334): the platform's entry at the cursor
\* as text, else the engine's evaluation
PlatformMateStr(mate) ==
    IF mate > 0 THEN <<"M", IntStr(mate)>> ELSE <<"-", "M", IntStr(0 - mate)>>

currentEvaluation ==
    IF selectedGame = NoGame
    THEN <<>>
    ELSE IF currentMoveIndex >= 0 /\ currentMoveIndex + 1 <= Len(selectedGame.analysis)
         THEN LET entry == selectedGame.analysis[currentMoveIndex + 1]
              IN  IF entry.mate # 0 THEN PlatformMateStr(entry.mate)
                  ELSE ToFixed2(entry.eval)
         ELSE evaluation

\* parseFloat of an evaluation text, in hundredths of a pawn
parseFloat(text) ==
    LET digits == text[Len(text)]
        a == CASE digits = "0.00" -> 0
               [] digits = "0.30" -> 30
               [] digits = "0.50" -> 50
               [] digits = "0.80" -> 80
               [] digits = "10.00" -> 1000
               [] OTHER -> 0 - 1
    IN  [nan |-> a < 0, score |-> IF text[1] = "-" THEN 0 - a ELSE a]

\* 50 + (2 / (1 + Math.exp(-score)) - 1) * 50 in hundredths of a percent,
\* rounded down, for the scores that occur; the curve is symmetric about 50
Curve(score) ==
    LET a == IF score < 0 THEN 0 - score ELSE score
        share == CASE a = 0 -> 5000
                   [] a = 30 -> 5744
                   [] a = 50 -> 6224
                   [] a = 80 -> 6899
                   [] OTHER -> 9999
    IN  IF score < 0 THEN 10000 - share ELSE share

\* whitePercentage (part_003 8-27), in hundredths of a percent
whitePercentage(text) ==
    IF text = <<>>
    THEN 5000
    ELSE IF \E i \in 1..Len(text) : text[i] = "M"
         THEN IF text[1] = "-" THEN 0 ELSE 10000
         ELSE LET parsed == parseFloat(text)
              IN  IF parsed.nan THEN 5000
                  ELSE Max(500, Min(9500, Curve(parsed.score)))

\* the page with the game whose analysis has mates, and a worker that prints
\* mate scores for the positions the platform did not analyse
InitMate ==
    /\ Mounted
    /\ games = {Game6}
    /\ lineCap = MaxQueue
    /\ tracing = FALSE
    /\ Linked(NoToken)
    /\ page = "Live"

NextMate ==
    \/ SelectGame(Game6)
    \/ ClickPrev
    \/ ClickNext
    \/ TimerFires
    \/ OnMessage
    \/ WorkerUciok
    \/ WorkerReadyok
    \/ WorkerInfo
    \/ WorkerMate
    \/ WorkerBestMove

SpecMate == InitMate /\ [][NextMate]_vars

\* --------------------------------- parseUciOutput on the text of a line
\* A line is its words, separated by single spaces.  A pattern 'word (...)'
\* matches at the leftmost place where the line has the letters of the word
\* followed by a space: at a word that ends in those letters and is not the
\* last one.
UciTexts ==
    { <<"uciok">>,
      <<"readyok">>,
      <<"info", "string", "NNUE">>,
      <<"info", "depth", "16", "currmove", "e2e4", "currmovenumber", "1">>,
      <<"info", "depth", "16", "score", "cp", "30", "pv", "e2e4", "e7e5">>,
      <<"info", "depth", "16", "seldepth", "20", "multipv", "1", "score", "cp", "30",
        "pv", "e2e4", "e7e5">>,
      <<"info", "depth", "20", "seldepth", "20", "multipv", "1", "score", "cp", "-30",
        "pv", "g1f3">>,
      <<"info", "depth", "20", "score", "mate", "2",
        "pv", "g1f3", "b8c6", "e2e4", "e7e5", "f3g1", "c6b8">>,
      <<"bestmove", "e2e4", "ponder", "e7e5">>,
      <<"bestmove", "g1f3">> }

\* the words of the engine's vocabulary that end in the letters of a pattern
EndsIn(word, letters) ==
    CASE letters = "depth" -> word \in {"depth", "seldepth"}
      [] letters = "score" -> word = "score"
      [] letters = "pv" -> word \in {"pv", "multipv"}
      [] OTHER -> word = letters

\* the word has the form -?\d+ ; parseInt of it
IsNumeral(word) == word \in {"1", "2", "16", "20", "30", "-30"}

parseInt(word) ==
    CASE word = "1" -> 1
      [] word = "2" -> 2
      [] word = "16" -> 16
      [] word = "20" -> 20
      [] word = "30" -> 30
      [] word = "-30" -> 0 - 30
      [] OTHER -> 0

\* the places where 'letters ' occurs in the line
Occurrences(output, letters) ==
    {i \in 1..(Len(output) - 1) : EndsIn(output[i], letters)}

Leftmost(places) == CHOOSE i \in places : \A j \in places : i <= j

\* output.match(/depth (\d+)/): the places where it can match
depthMatch(output) ==
    {i \in Occurrences(output, "depth") : IsNumeral(output[i + 1]) /\ parseInt(output[i + 1]) >= 0}

\* output.match(/score (cp|mate) (-?\d+)/)
scoreMatch(output) ==
    {i \in Occurrences(output, "score") :
        /\ i + 2 <= Len(output)
        /\ output[i + 1] \in {"cp", "mate"}
        /\ IsNumeral(output[i + 2])}

\* output.match(/pv (.+)/): group 1 is the rest of the line after the leftmost
\* 'pv '
pvMatch(output) == Occurrences(output, "pv")

pvGroup(output) == Drop(output, Leftmost(pvMatch(output)))

\* parseUciOutput (267-321) for the text of one line
parseUciText(output) ==
    LET isInfo == output[1] = "info"
        isBestmove == output[1] = "bestmove" /\ Len(output) >= 2
    IN  /\ uciLine' = output
        /\ handshake' = IF output = <<"uciok">> THEN "isready" ELSE handshake
        /\ isReady' = IF output = <<"readyok">> THEN TRUE ELSE isReady
        /\ depth' = IF isInfo /\ depthMatch(output) # {}
                    THEN parseInt(output[Leftmost(depthMatch(output)) + 1])
                    ELSE depth
        /\ evaluation' = IF isInfo /\ scoreMatch(output) # {}
                         THEN LET i == Leftmost(scoreMatch(output))
                              IN  ScoreToEvaluation(output[i + 1], parseInt(output[i + 2]))
                         ELSE evaluation
        /\ principalVariation' = IF isInfo /\ pvMatch(output) # {}
                                 THEN PvSlice(pvGroup(output))
                                 ELSE principalVariation
        /\ bestMove' = IF isBestmove THEN output[2] ELSE bestMove
        /\ RunEffect(selectedGame, currentMoveIndex, variationMoves, inVariation, isReady',
                     IF isBestmove THEN FALSE ELSE isAnalyzing)
        /\ UNCHANGED <<authVars, liveVars, oauthVars, cacheVars, pgnVars, reading, chesscom,
                       listVars, navVars, currentFenRef, searches, fromWorker, buildVars,
                       bestMoveFor>>
        /\ Trace

\* worker.onmessage (237-244) with the text the worker printed
OnMessageText == \E output \in UciTexts : parseUciText(output)

NextText ==
    \/ OnMessageText
    \/ \E game \in Games : SelectGame(game)
    \/ TimerFires

SpecText == InitEngine /\ [][NextText]_vars

\* the page with the annotated game whose second token fails
InitAnnotated ==
    /\ Mounted
    /\ games = {Game5}
    /\ lineCap = MaxQueue
    /\ tracing = FALSE
    /\ Linked(NoToken)
    /\ page = "Live"

NextAnnotated ==
    \/ SelectGame(Game5)
    \/ ClickFirst
    \/ ClickPrev
    \/ ClickNext
    \/ ClickLast
    \/ ClickMove
    \/ ShiftArrowRight
    \/ ArrowRight
    \/ ShiftArrowLeft
    \/ ArrowLeft
    \/ ArrowUp
    \/ ArrowDown
    \/ TimerFires
    \/ OnMessage
    \/ WorkerUciok
    \/ WorkerReadyok
    \/ WorkerInfo
    \/ WorkerBestMove

SpecAnnotated == InitAnnotated /\ [][NextAnnotated]_vars

\* one game stream read chunk by chunk, for every text and every chunking
NextFraming ==
    \/ StreamGame
    \/ ReadChunk
    \/ ReadDone
    \/ AbortReading
    \/ ReadRejects

SpecFraming == Init /\ [][NextFraming]_vars

\* connecting and disconnecting a Chess.com account
NextChesscom ==
    \/ SetChesscomUsername
    \/ LoadChesscomProfile
    \/ ChesscomResponse
    \/ ClearChesscomAccount

SpecChesscom == Init /\ [][NextChesscom]_vars

\* the page opened with a Lichess token and a Chess.com username in
\* localStorage; the two accounts are disconnected while the games store and
\* the profiles load
InitAccounts ==
    /\ MountedWith([NoAccount EXCEPT !.stored = "alice", !.chesscomUsername = "alice"])
    /\ games = Games
    /\ lineCap = MaxQueue
    /\ tracing = FALSE
    /\ \E tok \in AccessTokens : Linked(tok)
    /\ page = "Live"

NextAccounts ==
    \/ Logout
    \/ LoadChesscomProfile
    \/ ChesscomResponse
    \/ ClearChesscomAccount
    \/ FetchRecent
    \/ GamesResponse

SpecAccounts == InitAccounts /\ [][NextAccounts]_vars

\* the current games of both accounts being polled
NextPlaying ==
    \/ PollGames
    \/ ClickLiveGame
    \/ Logout
    \/ ClearChesscomAccount

SpecPlaying == InitAccounts /\ [][NextPlaying]_vars

\* the timeline builder on every move list of up to MaxMoves tokens
NextBuild == AppendToken \/ ClearTokens

SpecBuild == Init /\ [][NextBuild]_vars

\* the auth store with the live games of the Live page or of the Home page
InitLive ==
    /\ Mounted
    /\ games = Games
    /\ lineCap = MaxQueue
    /\ tracing = FALSE
    /\ \E tok \in AccessTokens \cup {NoToken} : Linked(tok)
    /\ page \in {"Live", "Home"}

NextLive ==
    \/ \E t \in AccessTokens : SetToken(t)
    \/ Logout
    \/ FetchPlayingGames
    \/ ClickLiveGame
    \/ ServerSend
    \/ ReadStream

SpecLive == InitLive /\ [][NextLive]_vars

\* the auth store while profile requests are answered
NextAuth ==
    \/ \E t \in AccessTokens : SetToken(t)
    \/ Logout
    \/ LoadProfile
    \/ ProfileResponse
    \/ FetchPlayingGames

SpecAuth == InitLive /\ [][NextAuth]_vars

\* a streamed game on the Live page next to a replayed game whose engine
\* prints lines of no interest among the others
InitParse ==
    /\ Mounted
    /\ games = {Game1}
    /\ lineCap = MaxQueue
    /\ tracing = FALSE
    /\ \E tok \in AccessTokens : Linked(tok)
    /\ page = "Live"

NextParse ==
    \/ FetchPlayingGames
    \/ ServerSend
    \/ ReadStream
    \/ \E game \in Games : SelectGame(game)
    \/ TimerFires
    \/ OnMessage
    \/ WorkerUciok
    \/ WorkerReadyok
    \/ WorkerInfo
    \/ WorkerOther

SpecParse == InitParse /\ [][NextParse]_vars

\* the login with Lichess, from startLichessAuth to the profile
NextOAuth ==
    \/ StartLichessAuth
    \/ OAuthCallback
    \/ TokenResponse
    \/ ProfileResponse
    \/ Logout

SpecOAuth == Init /\ [][NextOAuth]_vars

\* the games store with the accounts being disconnected
NextCache ==
    \/ FetchRecent
    \/ GamesResponse
    \/ Logout
    \/ ClearChesscomAccount

SpecCache == Init /\ [][NextCache]_vars

\* extractMovesFromPgn on the PGN texts of games of up to MaxPlies moves
NextPgn == AddPgnHeader \/ AddPgnMove \/ SetPgnResult

SpecPgn == Init /\ [][NextPgn]_vars

\* ----------------------------------------------------------------- claims
\* C1: appending a move that is illegal in the current overlaid position is
\* rejected (the overlay is left as it was), so in every state the overlay
\* replays without error on the snapshot at the cursor.
C1_IllegalAppendRejected ==
    /\ [](selectedGame # NoGame => ReplayVariation(basePosition, variationMoves).ok)
    /\ [][variationMoves' = Append(variationMoves, currentBestMove)
            => Legal(currentPosition, currentBestMove)]_vars

\* what every jump must leave behind: Following, no overlay, the cursor at i
JumpedTo(i) ==
    currentMoveIndex' = i /\ inVariation' = FALSE /\ variationMoves' = <<>>

\* C2: every jump (to start, to end, to an index), from the keyboard, the
\* first/last buttons or the move list, in Following or in Exploring, ends in
\* Following with an empty overlay and the cursor at -1, the last index or the
\* index given.
C2_JumpsExitExploring ==
    [][/\ (ArrowUp \/ ClickFirst) => JumpedTo(0 - 1)
       /\ (ArrowDown \/ ClickLast) => JumpedTo(lastIndex)
       /\ \A index \in 0..lastIndex : goToMove(index) => JumpedTo(index)]_vars

\* a line of a search that is no longer the current request, or whose
\* position is no longer the current one
StaleLine(line) ==
    /\ selectedGame # NoGame
    /\ line.kind \in {"info", "bestmove"}
    /\ (line.fen # currentPosition \/ line.fen # currentFenRef)

\* C3: handling a line of a superseded search leaves evaluation, bestMove,
\* depth and principalVariation unchanged.
C3_StaleResultDiscarded ==
    [][(OnMessage /\ StaleLine(Head(fromWorker)))
         => UNCHANGED <<evaluation, bestMove, depth, principalVariation>>]_vars

\* the 0-based positions of the tokens that fail to apply when the list is
\* replayed from the start
RECURSIVE FailedAt(_, _, _)
FailedAt(list, i, fen) ==
    IF i >= Len(list)
    THEN {}
    ELSE IF moveResult(fen, list[i + 1]) = "null"
         THEN {i} \cup FailedAt(list, i + 1, fen)
         ELSE FailedAt(list, i + 1, ApplyMove(fen, moveResult(fen, list[i + 1])))

\* C4: a move list whose only failing token is at position k builds a
\* timeline of exactly k+1 entries.
C4_StopsAtFailedToken ==
    \A k \in 0..MaxMoves :
        FailedAt(tokens, 0, StartFen) = {k} => Len(built) = k + 1

\* C5: however many changes of the current position follow each other within
\* the debounce delay, at most one timer is pending and it is for the current
\* position; once it has run out exactly one request has been issued since
\* the last change, for the current position, and no timer is left.
C5_OneRequestPerBurst ==
    tracing =>
        /\ Cardinality(timers) <= 1
        /\ \A t \in timers : t.fen = currentPosition
        /\ issued <= 1
        /\ timers # {} => issued = 0
        /\ issued = 1 => (timers = {} /\ currentFenRef = currentPosition)

\* three changes within the delay, then the one request, for the last position
C5_Witness ==
    /\ tracing
    /\ burst = BurstCap
    /\ issued = 1
    /\ isReady
    /\ currentFenRef = currentPosition
    /\ timers = {}

\* C6: no request is issued while the entry at the cursor has a platform
\* evaluation and the navigator is Following.
C6_NoRequestWhenAnalysed ==
    [][Len(searches') > Len(searches)
         => ~(/\ ~inVariation
              /\ currentMoveIndex >= 0
              /\ currentMoveIndex + 1 <= Len(selectedGame.analysis))]_vars

\* at an analysed ply, Following, the engine ready and used before: nothing
\* is pending
C6_Witness ==
    /\ selectedGame = Game2
    /\ currentMoveIndex = 0
    /\ ~inVariation
    /\ isReady
    /\ currentFenRef # NullFen
    /\ timers = {}

\* the current position has no platform evaluation: it is off the game (the
\* overlay moved it) or the entry at the cursor has none
LacksPlatformEval ==
    \/ currentPosition # basePosition
    \/ ~(currentMoveIndex >= 0 /\ currentMoveIndex + 1 <= Len(selectedGame.analysis))

\* C7: whenever the current position lacks a platform evaluation and the
\* engine is ready, a request for it has been issued or is pending behind the
\* debounce delay, the overlaid position of a variation included.
C7_RequestPendingOrIssued ==
    (selectedGame # NoGame /\ isReady /\ LacksPlatformEval)
        => \/ \E t \in timers : t.fen = currentPosition
           \/ currentFenRef = currentPosition

\* C8: while a game is selected the cursor is between -1 and N-1, and only a
\* navigation action or a game selection changes it.
C8_CursorInRange ==
    /\ [](selectedGame # NoGame =>
            /\ currentMoveIndex \in Int
            /\ 0 - 1 <= currentMoveIndex
            /\ currentMoveIndex <= Len(gameData(selectedGame)) - 2)
    /\ [][currentMoveIndex' # currentMoveIndex
            => \/ ClickFirst \/ ClickPrev \/ ClickNext \/ ClickLast \/ ClickMove
               \/ ArrowLeft \/ ArrowRight \/ ArrowUp \/ ArrowDown
               \/ \E game \in Games : SelectGame(game)]_vars

\* the cursor on the last move of a game with moves
C8_Witness ==
    /\ selectedGame = Game1
    /\ currentMoveIndex = Len(gameData(Game1)) - 2
    /\ currentMoveIndex >= 1

\* C9: a step forward in Following moves the cursor up by exactly one below
\* the last index, and at the last index (or with no moves) changes neither
\* cursor, mode nor overlay.
C9_StepForward ==
    [][((ArrowRight \/ ClickNext) /\ ~inVariation)
         => IF currentMoveIndex < Len(gameData(selectedGame)) - 2
            THEN /\ currentMoveIndex' = currentMoveIndex + 1
                 /\ UNCHANGED <<inVariation, variationMoves>>
            ELSE UNCHANGED <<currentMoveIndex, inVariation, variationMoves>>]_vars

\* Following, stepped from -1 up to the last index of a two-move game
C9_Witness ==
    /\ selectedGame = Game1
    /\ ~inVariation
    /\ variationMoves = <<>>
    /\ currentMoveIndex = 1
    /\ Len(gameData(Game1)) = 3

\* C10: entering a variation and appending moves leaves the cursor where it
\* was, 'exit variation' in Exploring clears the overlay and returns to
\* Following at that cursor, and in Following it changes nothing.
C10_ExitVariation ==
    [][/\ (ShiftArrowRight \/ (ArrowRight /\ inVariation))
            => currentMoveIndex' = currentMoveIndex
       /\ (ShiftArrowLeft /\ inVariation)
            => /\ currentMoveIndex' = currentMoveIndex
               /\ inVariation' = FALSE
               /\ variationMoves' = <<>>
       /\ (ShiftArrowLeft /\ ~inVariation) => UNCHANGED vars]_vars

\* Exploring two moves deep at a cursor inside the game
C10_Witness ==
    /\ selectedGame # NoGame
    /\ inVariation
    /\ Len(variationMoves) = 2
    /\ currentMoveIndex >= 0

\* C11: a step backward (the ArrowLeft key or the on-screen previous button)
\* in Following sets the cursor to max(-1, cursor-1) and leaves the overlay
\* empty; in Exploring it removes exactly the last overlay move, leaves the
\* cursor where it is, and returns to Following exactly when the overlay
\* becomes empty.
C11_StepBackward ==
    [][(ArrowLeft \/ ClickPrev)
         => IF ~inVariation
            THEN /\ currentMoveIndex' = Max(0 - 1, currentMoveIndex - 1)
                 /\ variationMoves' = <<>>
                 /\ inVariation' = FALSE
            ELSE /\ variationMoves # <<>>
                 /\ variationMoves' = SubSeq(variationMoves, 1, Len(variationMoves) - 1)
                 /\ currentMoveIndex' = currentMoveIndex
                 /\ inVariation' = (variationMoves' # <<>>)]_vars

\* C12: 'follow best line' in Following with a best-known move enters
\* Exploring with an overlay of exactly that move and the cursor unchanged; a
\* step forward in Exploring (key with or without Shift, or the on-screen next
\* button) appends exactly the best-known move and stays in Exploring at the
\* same cursor; with no best-known move the action changes neither overlay,
\* mode nor cursor.
C12_FollowBestLine ==
    [][/\ (ShiftArrowRight /\ ~inVariation /\ currentBestMove # "null")
            => /\ inVariation' = TRUE
               /\ variationMoves' = <<currentBestMove>>
               /\ currentMoveIndex' = currentMoveIndex
       /\ ((ShiftArrowRight \/ ArrowRight \/ ClickNext) /\ inVariation
             /\ currentBestMove # "null")
            => /\ inVariation' = TRUE
               /\ variationMoves' = Append(variationMoves, currentBestMove)
               /\ currentMoveIndex' = currentMoveIndex
       /\ ((ShiftArrowRight \/ ((ArrowRight \/ ClickNext) /\ inVariation))
             /\ currentBestMove = "null")
            => UNCHANGED <<inVariation, variationMoves, currentMoveIndex>>]_vars

\* the platform's best-move annotation of the entry at the cursor, "null"
\* when the entry has none
AnnotationAtCursor ==
    IF hasLichessEval THEN selectedGame.analysis[currentMoveIndex + 1].best ELSE "null"

\* C13: the move a step forward / follow best line appends is the platform's
\* annotation of the entry at the cursor when there is one, and otherwise the
\* engine's latest best move, which was computed for the exact current
\* position; a best move computed for another position is never appended.
C13_BestMoveForCurrentPosition ==
    [][((ShiftArrowRight \/ (ArrowRight /\ inVariation))
          /\ variationMoves' # variationMoves)
         => IF AnnotationAtCursor # "null"
            THEN variationMoves' = Append(variationMoves, AnnotationAtCursor)
            ELSE /\ variationMoves' = Append(variationMoves, bestMove)
                 /\ bestMoveFor = currentPosition]_vars

\* C14: with a game selected, the current position is the timeline snapshot
\* at the cursor in Following, and in Exploring it is that snapshot with every
\* overlay move replayed in order: the overlay replays, and the position is
\* never the bare snapshot standing in for an overlay that does not.
C14_CurrentPositionIsReplay ==
    selectedGame # NoGame =>
        /\ currentMoveIndex + 2 \in 1..Len(positionsOf(selectedGame))
        /\ basePosition = positionsOf(selectedGame)[currentMoveIndex + 2].fen
        /\ IF inVariation
           THEN /\ ReplayVariation(basePosition, variationMoves).ok
                /\ currentPosition = ReplayVariation(basePosition, variationMoves).fen
           ELSE currentPosition = basePosition

\* C15: while the navigator stays Exploring with a non-empty overlay, no
\* action (key, on-screen first/previous/next/last button, move-list click)
\* changes the cursor.
C15_CursorFrozenWhileExploring ==
    [][(inVariation /\ inVariation' /\ variationMoves' # <<>>)
         => currentMoveIndex' = currentMoveIndex]_vars

\* C16: selecting a game, the same or another, from any navigator state
\* leaves the cursor at -1, the overlay empty and the mode Following, and the
\* timeline is the one built from the selected game's move list, shown at its
\* start position.
C16_SelectResets ==
    [][\A game \in Games :
          SelectGame(game)
            => /\ selectedGame' = game
               /\ currentMoveIndex' = 0 - 1
               /\ variationMoves' = <<>>
               /\ inVariation' = FALSE
               /\ positionsOf(selectedGame') = gameData(game)
               /\ currentPosition' = StartFen]_vars

\* Game2 at its start, Following, while the position the engine searched last
\* is on no game's timeline: a variation was explored and a game selected
\* after it
C16_Witness ==
    /\ selectedGame = Game2
    /\ currentMoveIndex = 0 - 1
    /\ ~inVariation
    /\ variationMoves = <<>>
    /\ currentFenRef # NullFen
    /\ \A g \in Games : \A i \in 1..Len(gameData(g)) : gameData(g)[i].fen # currentFenRef

\* C17: for every move list the timeline has one entry more than the tokens
\* that applied, entry 0 is the initial position with no move, and every later
\* entry's position is its move applied to the position of the entry before.
C17_TimelineReproducible ==
    /\ Len(built) = Len(tokens) - Cardinality(FailedAt(tokens, 0, StartFen)) + 1
    /\ built[1].fen = StartFen
    /\ built[1].move = "null"
    /\ \A i \in 2..Len(built) :
          /\ Legal(built[i - 1].fen, built[i].move)
          /\ built[i].fen = ApplyMove(built[i - 1].fen, built[i].move)

\* three tokens, the middle one failing, two moves applied
C17_Witness ==
    /\ Len(tokens) = 3
    /\ FailedAt(tokens, 0, StartFen) = {1}
    /\ Len(built) = 3
    /\ built[3].fen # built[2].fen

\* the streams whose controller has not been aborted and whose read loop has
\* not ended
OpenStreams == {i \in 1..Len(streams) : streams[i].status = "open"}

\* C18: in every state at most one game stream is un-cancelled and it is the
\* stream of the selected live game (with no game selected there is none); a
\* new stream is only opened once every stream before it has been cancelled
\* or has ended.
C18_OneLiveStream ==
    /\ [](/\ Cardinality(OpenStreams) <= 1
          /\ \A i \in OpenStreams :
                /\ selectedLiveGame # NoLiveGame
                /\ streams[i].gameId = selectedLiveGame.gameId
                /\ streamCleanupRef = i)
    /\ [][Len(streams') > Len(streams)
            => \A i \in 1..Len(streams) : streams'[i].status # "open"]_vars

\* game B is streamed after the selection was switched away from game A,
\* whose stream is aborted
C18_Witness ==
    /\ Len(streams) = 2
    /\ streams[1].gameId = "gA"
    /\ streams[1].status \in {"aborted", "closed"}
    /\ streams[2].gameId = "gB"
    /\ streams[2].status = "open"
    /\ selectedLiveGame = LiveB

\* C19: a line or an end-of-stream that a stream delivers after it was
\* cancelled changes neither the displayed game state, nor the board position,
\* nor the selected game.
C19_EventAfterCancelIgnored ==
    [][\A i \in 1..Len(streams) :
          (StreamRead(i) /\ streams[i].status = "aborted" /\ streams[i].buffer # <<>>)
            => UNCHANGED <<liveGameState, liveChess, selectedLiveGame>>]_vars

\* the cancelled stream of game A had a line in flight, which was dropped,
\* while game B is shown
C19_Witness ==
    /\ Len(streams) = 2
    /\ streams[1].status = "closed"
    /\ streams[1].discarded
    /\ streams[2].status = "open"
    /\ liveGameState.kind = "line"
    /\ liveGameState.id = streams[2].gameId
    /\ streams[1].gameId # streams[2].gameId

\* C20: when the profile request of loadProfile is answered with a 401, the
\* store ends logged out: the stored credential is removed, token is null,
\* isAuthenticated is false, user is null and isLoading is false.
C20_LoggedOutOn401 ==
    [][\A k \in 1..Len(profileRequests) :
          (ProfileAnswered(k, "401") /\ profileRequests[k].by = "loadProfile")
            => /\ storedToken' = NoToken
               /\ token' = NoToken
               /\ isAuthenticated' = FALSE
               /\ user' = NoUser
               /\ isLoading' = FALSE]_vars

\* loadProfile's request was just answered with a 401 and nobody is logged in
C20_Witness ==
    /\ answered = [by |-> "loadProfile", outcome |-> "401"]
    /\ storedToken = NoToken
    /\ token = NoToken
    /\ ~isAuthenticated
    /\ error = "Failed to fetch profile"
    /\ profileRequests = <<>>

\* C21: when the profile request of loadProfile ends with a failure that is
\* not a 401 (a 500, or the fetch rejecting), the store only shows the error:
\* error is the message, isLoading is false, the stored credential, token and
\* isAuthenticated are as before, and no new request is made.
C21_TransportFailureOnlySurfaced ==
    [][\A k \in 1..Len(profileRequests) :
          \A outcome \in Outcomes \ {"200", "401"} :
             (ProfileAnswered(k, outcome) /\ profileRequests[k].by = "loadProfile")
               => /\ error' = ErrMessage(outcome)
                  /\ isLoading' = FALSE
                  /\ UNCHANGED <<storedToken, token, isAuthenticated>>
                  /\ profileRequests' = Without(profileRequests, k)]_vars

\* the evaluation as shown for a score seen from White's side
WhiteEvaluation(stype, value) ==
    IF stype = "cp" THEN ToFixed2(value) ELSE MateStr(value)

\* C22: handling a progress line with a centipawn or mate score stores the
\* evaluation from White's side: the reported value when the position whose
\* search printed the line has White to move, its negation when that position
\* has Black to move.
C22_ScoreFromWhiteSide ==
    [][(OnMessage /\ Head(fromWorker).kind = "info"
          /\ Head(fromWorker).stype \in {"cp", "mate"})
         => evaluation' = WhiteEvaluation(Head(fromWorker).stype,
                                          IF Head(fromWorker).fen.turn = "b"
                                          THEN 0 - Head(fromWorker).value
                                          ELSE Head(fromWorker).value)]_vars

\* C23: a request (position + go) is sent only after the engine has answered
\* uci with uciok and isready with readyok; while the engine is not ready the
\* evaluation and the best move are absent, and the first/previous/next/last
\* buttons, the move list, the arrow keys in Following and the game list are
\* enabled and do what they always do.
C23_EngineUnavailable ==
    /\ [][Len(searches') > Len(searches) => (handshake = "ready" /\ isReady)]_vars
    /\ [](~isReady =>
            /\ evaluation = <<>>
            /\ bestMove = "null"
            /\ searches = <<>>
            /\ currentFenRef = NullFen
            /\ \A game \in games : ENABLED SelectGame(game)
            /\ selectedGame # NoGame =>
                  /\ ENABLED ClickFirst /\ ENABLED ClickPrev
                  /\ ENABLED ClickNext /\ ENABLED ClickLast
                  /\ \A index \in 0..lastIndex : ENABLED goToMove(index))
    /\ [][~isReady =>
            /\ (ClickFirst \/ ArrowUp) => currentMoveIndex' = 0 - 1
            /\ (ClickPrev \/ (ArrowLeft /\ ~inVariation))
                  => currentMoveIndex' = Max(0 - 1, currentMoveIndex - 1)
            /\ (ClickNext \/ (ArrowRight /\ ~inVariation))
                  => currentMoveIndex' = Min(lastIndex, currentMoveIndex + 1)
            /\ (ClickLast \/ ArrowDown) => currentMoveIndex' = lastIndex
            /\ \A index \in 0..lastIndex : goToMove(index) => currentMoveIndex' = index
            /\ \A game \in Games :
                  SelectGame(game) => (selectedGame' = game /\ currentMoveIndex' = 0 - 1)]_vars

\* the worker never answered 'uci'; a game without platform analysis was
\* stepped to its last move all the same, and nothing is pending
C23_Witness ==
    /\ handshake = "uci"
    /\ ~isReady
    /\ selectedGame = Game1
    /\ currentMoveIndex = 1
    /\ evaluation = <<>>
    /\ timers = {}

\* C24: a token-exchange request is sent only by a callback that carries a
\* code and a state equal to the state startLichessAuth saved, and a token is
\* stored (isAuthenticated becomes true) only when such a request is answered;
\* a callback with an error parameter, without code or state, or with another
\* state sends no request and leaves the auth store as it was.
C24_CallbackNeedsSavedState ==
    /\ [][Len(tokenRequests') > Len(tokenRequests)
            => \E code \in Codes : \E state \in OAuthStates :
                  /\ Callback(code, state, NoParam)
                  /\ state = oauthSession.state]_vars
    /\ [][(oauthSession'.state # oauthSession.state /\ oauthSession'.state # NoParam)
            => StartLichessAuth]_vars
    /\ [][((token' # token /\ token' # NoToken) \/ (isAuthenticated' /\ ~isAuthenticated))
            => \E k \in 1..Len(tokenRequests) : TokenAnswered(k, "200")]_vars
    /\ [][\A code \in CodeParams : \A state \in StateParams : \A err \in ErrorParams :
            (/\ Callback(code, state, err)
             /\ \/ Truthy(err)
                \/ ~Truthy(code)
                \/ ~Truthy(state)
                \/ state # oauthSession.state)
              => UNCHANGED <<tokenRequests, authVars>>]_vars

\* logged in through the callback: the exchange was answered, the session
\* items are removed and the router is back at the home page
C24_Witness ==
    /\ route = "/"
    /\ isAuthenticated
    /\ token = "tokA"
    /\ storedToken = "tokA"
    /\ oauthSession = NoSession
    /\ tokenRequests = <<>>

\* the non-forced requests of platform p awaiting their response
NonForced(p) ==
    {k \in 1..Len(gameRequests) : gameRequests[k].platform = p /\ ~gameRequests[k].force}

\* C25: once a fetch of a platform has completed and the cache was not cleared
\* since, a non-forced fetch for it sends no request and leaves the games
\* store as it was; and at most one non-forced request per platform is
\* awaiting its response.
C25_CacheServesLaterFetches ==
    /\ [][\A p \in Platforms : \A username \in Usernames :
            (FetchGames(p, username, FALSE) /\ gamesStore[p].fetched)
              => UNCHANGED cacheVars]_vars
    /\ [](\A p \in Platforms : Cardinality(NonForced(p)) <= 1)

\* C28: a response to a request made before its platform's cache was cleared
\* is discarded: it leaves the cached games empty and the fetched flag false.
C28_ResponseAfterClearDiscarded ==
    [][\A k \in 1..Len(gameRequests) : \A ok \in BOOLEAN : \A list \in GameLists :
          (GamesAnswered(k, ok, list) /\ gameRequests[k].cleared)
            => /\ gamesStore'[gameRequests[k].platform].games = <<>>
               /\ gamesStore'[gameRequests[k].platform].fetched = FALSE]_vars

\* C26: the string extracted from a Chess.com PGN, split on blanks, is the
\* game's moves in order and nothing else: header lines, move numbers ('n.'
\* and 'n...'), brace comments and the result leave no token behind.
C26_OnlyMovesExtracted ==
    MoveTokens(extracted) = [k \in 1..Len(pgnGame.moves) |-> pgnGame.moves[k].san]

\* the position a move list leads to when the tokens that fail are left out
SkippingFailures(moves) ==
    gameData(TokenGame(moves))[Len(gameData(TokenGame(moves)))].fen

\* C27: a line of a game stream that does not parse is dropped and the stream
\* goes on: the next well-formed line is handed to the page; a move of a
\* streamed move list that fails is skipped and the moves after it are still
\* made; an engine line that matches no pattern leaves the evaluation state
\* as it was.
C27_ParseFailuresSkipped ==
    [][/\ \A i \in 1..Len(streams) :
            (StreamRead(i) /\ streams[i].status = "open")
              => LET ev == Head(streams[i].buffer)
                 IN  /\ ev.kind = "malformed"
                           => /\ UNCHANGED <<liveGameState, liveChess, selectedLiveGame>>
                              /\ streams'[i].status = "open"
                     /\ ev.kind = "line"
                           => /\ liveGameState' = ev
                              /\ ev.moves # <<>> => liveChess' = SkippingFailures(ev.moves)
       /\ (OnMessage /\ Head(fromWorker).kind = "other")
            => UNCHANGED <<evaluation, bestMove, depth, principalVariation, isReady,
                           isAnalyzing>>]_vars

\* the stream delivered a line whose move list has a move that fails between
\* two that apply, and both were made; the line after it did not parse and
\* was dropped, and the stream is still read; the engine's evaluation is on
\* display
C27_Witness ==
    /\ Len(streams) = 1
    /\ streams[1].status = "open"
    /\ streams[1].skipped
    /\ liveGameState.kind = "line"
    /\ liveGameState.moves = <<"e2e4", "h1h8", "e7e5">>
    /\ liveChess = ApplyMove(ApplyMove(StartFen, "e2e4"), "e7e5")
    /\ evaluation # <<>>
    /\ fromWorker = <<>>

\* C29: in every state the keys, the buttons, the move list, the game list and
\* the list reload can reach, inVariation is true exactly when variationMoves
\* is non-empty.
C29_ModeMatchesOverlay == inVariation <=> variationMoves # <<>>

\* exploring a two-move variation of Game2 from its last ply, the cursor having
\* been moved by a button or the move list: the overlay was grown by
\* Shift+ArrowRight and ArrowRight and survived the cursor change
C29_Witness ==
    /\ selectedGame = Game2
    /\ inVariation
    /\ Len(variationMoves) = MaxOverlay
    /\ currentMoveIndex = lastIndex

\* C30: at every cursor c >= 0 the analysis entry and the clock looked up at
\* index c, and the judgment of the snapshot, are those of the ply whose
\* position the board shows (positions[c+1]), also when an earlier token of
\* the move list failed and was left out of the timeline.
C30_AnnotationsOfShownPly ==
    (selectedGame # NoGame /\ currentMoveIndex >= 0 /\ currentMoveIndex <= lastIndex)
        => LET shown == positionsOf(selectedGame)[currentMoveIndex + 2]
               ply == pliesOf(selectedGame)[currentMoveIndex + 1]
               mover == IF currentMoveIndex % 2 = 0 THEN "white" ELSE "black"
           IN  /\ AnalysisAt(selectedGame, currentMoveIndex) = AnalysisAt(selectedGame, ply)
               /\ getCurrentClock(mover) = ClockAt(selectedGame, ply)
               /\ shown.judgment = JudgmentAt(selectedGame, ply)

\* C31: in every state of the auth store, profile requests in flight or not,
\* isAuthenticated is true exactly when token is set, and user is null while
\* isAuthenticated is false: a profile response that arrives after logout
\* does not bring the user back.
C31_SessionConsistent ==
    /\ isAuthenticated <=> token # NoToken
    /\ ~isAuthenticated => user = NoUser

\* C32: whenever a live game is selected and a game state is displayed, the
\* state comes from the selected game (after a switch from A to B no state of
\* A is shown as B's), and with an empty list of playing games both the
\* selection and the game state are null.
C32_LiveViewOfSelectedGame ==
    /\ (selectedLiveGame # NoLiveGame /\ liveGameState # NoLiveState)
          => liveGameState.id = selectedLiveGame.gameId
    /\ playingGames = <<>>
          => (selectedLiveGame = NoLiveGame /\ liveGameState = NoLiveState)

\* the lines of text that are JSON, parsed, in the order of the text
WellFormedLines(text) == OnMoveCalls(SplitOn(text, "\n"))

\* what of the response body has been read
ReadSoFar == SubSeq(reading.text, 1, Len(reading.text) - Len(reading.body))

\* C33: for every text of newline-terminated lines and every chunking, onMove
\* has been called once for each well-formed non-empty line read so far, in
\* the order of the text, whatever the chunk boundaries; onEnd is called once,
\* after every line was delivered, and only when the stream ended without
\* having been cancelled.
C33_FramingIndependentOfChunks ==
    /\ reading.reader \in {"reading", "done"}
          => reading.onMove
               = WellFormedLines(SubSeq(ReadSoFar, 1, Len(ReadSoFar) - Len(reading.buffer)))
    /\ reading.onEnd = (IF reading.reader = "done" THEN 1 ELSE 0)
    /\ reading.reader = "done"
          => (reading.body = <<>> /\ reading.onMove = WellFormedLines(reading.text))

\* a stream of three lines, one of them not JSON, ended; a chunk ended inside
\* the line "bb"
C33_Witness ==
    /\ reading.reader = "done"
    /\ reading.text = <<"a", "\n", "x", "\n", "b", "b", "\n">>
    /\ reading.onMove = << <<"a">>, <<"b", "b">> >>
    /\ reading.carried
    /\ reading.onEnd = 1

\* C34: the continuation of setChesscomUsername stores the username and sets
\* chesscomUsername and chesscomUser when the profile and the stats request
\* both succeeded, and only then; when either failed it leaves the three as
\* they are, sets error, clears isLoading and rethrows; an empty or blank
\* username starts no request and is never stored.
C34_ConnectAllOrNothing ==
    /\ [](/\ \A k \in 1..Len(chesscom.requests) : ~Blank(chesscom.requests[k].username)
          /\ chesscom.stored \notin {"", " "}
          /\ chesscom.chesscomUsername \notin {"", " "})
    /\ [][\A k \in 1..Len(chesscom.requests) :
            \A profile \in ProfileOutcomes : \A stats \in StatsOutcomes :
              (ChesscomAnswered(k, profile, stats)
                 /\ chesscom.requests[k].by = "setChesscomUsername")
                => IF profile = "200" /\ stats = "200"
                   THEN /\ chesscom'.stored = chesscom.requests[k].username
                        /\ chesscom'.chesscomUsername = chesscom.requests[k].username
                        /\ chesscom'.chesscomUser = chesscom.requests[k].username
                        /\ ~isLoading'
                   ELSE /\ chesscom'.stored = chesscom.stored
                        /\ chesscom'.chesscomUsername = chesscom.chesscomUsername
                        /\ chesscom'.chesscomUser = chesscom.chesscomUser
                        /\ error' \in Rejections(profile, stats)
                        /\ ~isLoading'
                        /\ chesscom'.thrown]_vars

\* alice is connected and a later attempt to connect another account failed
\* on its stats request
C34_Witness ==
    /\ chesscom.thrown
    /\ chesscom.stored = "alice"
    /\ chesscom.chesscomUsername = "alice"
    /\ chesscom.chesscomUser = "alice"
    /\ error = StatsMessage
    /\ ~isLoading
    /\ chesscom.requests = <<>>

\* C35: logout leaves chesscomUsername, chesscomUser, the stored Chess.com
\* username and the Chess.com game cache as they are; clearChesscomAccount
\* leaves the Lichess token, the user and the Lichess game cache as they are.
C35_AccountsIndependent ==
    [][/\ Logout => /\ chesscom' = chesscom
                    /\ gamesStore'["chesscom"] = gamesStore["chesscom"]
       /\ ClearChesscomAccount
            => /\ UNCHANGED <<storedToken, token, isAuthenticated, user>>
               /\ gamesStore'["lichess"] = gamesStore["lichess"]]_vars

\* logged out of Lichess with the Chess.com account, its profile and its
\* cached games still there
C35_Witness ==
    /\ token = NoToken
    /\ storedToken = NoToken
    /\ ~isAuthenticated
    /\ chesscom.stored = "alice"
    /\ chesscom.chesscomUsername = "alice"
    /\ chesscom.chesscomUser = "alice"
    /\ gamesStore["chesscom"].games # <<>>
    /\ gamesStore["lichess"].games = <<>>

\* C36: fetchPlayingGames always sets playingGames to the games of the
\* platforms that answered, the Lichess games before the Chess.com games; a
\* platform that failed takes nothing from the other.
C36_PlatformsIsolatedAndOrdered ==
    [][\A lichess \in LichessAnswers : \A chesscomAnswer \in ChesscomAnswers :
          \A engine \in Engines :
             FetchPlayingGamesWith(lichess, chesscomAnswer, engine)
               => playingGames' = lichessGamesOf(lichess) \o chesscomGamesOf(chesscomAnswer)]_vars

\* C37: the bar shows 100% White for a forced mate by White and 0% for one by
\* Black, for the platform's mate entries and for the engine's mate scores
\* once turned to White's side; a non-mate evaluation shows a share between
\* 5% and 95%, and no evaluation shows 50%.
C37_MateDisplay ==
    /\ [](/\ currentEvaluation = <<>> => whitePercentage(currentEvaluation) = 5000
          /\ (currentEvaluation # <<>>
                 /\ \A i \in 1..Len(currentEvaluation) : currentEvaluation[i] # "M")
               => whitePercentage(currentEvaluation) \in 500..9500
          /\ (/\ selectedGame # NoGame
              /\ currentMoveIndex >= 0
              /\ currentMoveIndex + 1 <= Len(selectedGame.analysis)
              /\ selectedGame.analysis[currentMoveIndex + 1].mate # 0)
               => whitePercentage(currentEvaluation)
                    = IF selectedGame.analysis[currentMoveIndex + 1].mate > 0
                      THEN 10000 ELSE 0)
    /\ [][(OnMessage /\ Head(fromWorker).kind = "info" /\ Head(fromWorker).stype = "mate")
            => LET value == Head(fromWorker).value
                   evalValue == IF isBlackToMove THEN 0 - value ELSE value
               IN  whitePercentage(evaluation') = IF evalValue > 0 THEN 10000 ELSE 0]_vars

\* the pv field of a line: the moves after the word 'pv'
HasPvField(output) == \E i \in 1..Len(output) : output[i] = "pv"

PvField(output) ==
    Drop(output, CHOOSE i \in 1..Len(output) :
                     output[i] = "pv" /\ \A j \in 1..(i - 1) : output[j] # "pv")

\* C38: a progress line with a pv field stores the first min(5, n) moves of
\* that field, in order, also when a word ending in 'pv' such as 'multipv'
\* comes before it; a line without a pv field leaves principalVariation as it
\* was.
C38_PrincipalVariationOfPvField ==
    [][\A output \in UciTexts :
          parseUciText(output)
            => principalVariation'
                 = IF output[1] = "info" /\ HasPvField(output)
                   THEN SubSeq(PvField(output), 1, Min(5, Len(PvField(output))))
                   ELSE principalVariation]_vars

\* C39: a successful exchange removes the saved state and verifier, so the
\* state of the callback just exchanged no longer matches; a callback with a
\* code and a state handled while they are removed is sent to the
\* token_exchange_failed route and sends no token-exchange request.
C39_StateSingleUse ==
    /\ [][\A k \in 1..Len(tokenRequests) :
            TokenAnswered(k, "200")
              => /\ oauthSession' = NoSession
                 /\ \A state \in OAuthStates :
                       VerifierOf(state) = tokenRequests[k].verifier
                         => ~StateMatches(state, oauthSession'.state)]_vars
    /\ [][\A code \in Codes : \A state \in OAuthStates :
            (Callback(code, state, NoParam) /\ oauthSession = NoSession)
              => /\ route' = "/?error=token_exchange_failed"
                 /\ UNCHANGED <<tokenRequests, authVars>>]_vars

\* logged in through an exchange, and a callback handled after it was turned
\* away: nothing is saved, no request is in flight
C39_Witness ==
    /\ route = "/?error=token_exchange_failed"
    /\ isAuthenticated
    /\ token # NoToken
    /\ user # NoUser
    /\ oauthSession = NoSession
    /\ tokenRequests = <<>>
    /\ profileRequests = <<>>

====
